---- MODULE Spec2Model ----
(***************************************************************************)
(* A model of the jurisdoc back office: the DescricaoBanco store with its  *)
(* "one active description per banco_id" rule under concurrent             *)
(* transactions, and the petition / template render pipeline.              *)
(*                                                                         *)
(* Text is modelled as a sequence of atoms (short strings that the regular *)
(* expressions of the source treat as a unit); the empty string is << >>.  *)
(***************************************************************************)
EXTENDS Integers, Sequences, FiniteSets, TLC

\* ------------------------------------------------------------------ bounds
MaxRows  == 3      \* DescricaoBanco primary keys 1..MaxRows
InitRows == 2      \* rows already stored when the requests arrive
MaxProcs == 2      \* concurrent requests, each running one operation
MaxClientes == 2   \* Cliente primary keys 1..MaxClientes
MaxContas == 3     \* ContaBancaria primary keys 1..MaxContas
MaxCalls == 2      \* requests served by one worker

RowIds == 1..MaxRows
Procs  == 1..MaxProcs
Banks  == {"104", "341"}
BankOrder == <<"104", "341">>

\* ------------------------------------------------------------------ state
VARIABLES
    db,        \* committed DescricaoBanco table: pk -> row
    nextId,    \* the table's id sequence
    now,       \* clock read by auto_now (atualizado_em)
    tx,        \* per request: the open transaction (status, statements left, writes)
    unique_active_descricaobanco_per_bank,   \* the table has the partial unique index
    rq,        \* render request in progress (inputs), or the idle marker
    pc,        \* position of the render handler
    ctx,       \* the render handler's data map
    chk,       \* result of the validation helpers
    eng,       \* what the rendering engine has been asked to do so far
    resp,      \* the response of the render request
    arq,       \* archive files on disk: file name -> archive
    ret,       \* what the template utilities returned
    clientes,  \* committed Cliente table: pk -> row
    contas,    \* committed ContaBancaria table: pk -> row
    call       \* per request: the Cliente / ContaBancaria serializer call in progress

storeVars  == <<db, nextId, now, tx, unique_active_descricaobanco_per_bank>>
renderVars == <<rq, pc, ctx, chk, eng, resp>>
toolVars   == <<arq, ret>>
cadVars    == <<clientes, contas, call>>
vars == <<db, nextId, now, tx, unique_active_descricaobanco_per_bank,
         rq, pc, ctx, chk, eng, resp, arq, ret, clientes, contas, call>>

\* ------------------------------------------------------------------ helpers

Merge(w, d) == [r \in (DOMAIN w) \cup (DOMAIN d) |-> IF r \in DOMAIN w THEN w[r] ELSE d[r]]

EmptyFn == [r \in {} |-> 0]

\* display name registered for a bank code (what the operators type)
BankNameOf(b) == IF b = "341" THEN <<"Banco X">> ELSE <<"Caixa">>

\* DescricaoBanco row: the fields of cadastro/models.py and the structured fields
\* (nome_banco, cnpj, endereco) that the serializer, the filters and the petition
\* resolver read from it
NewRow(b, ativa, t) ==
    [banco_id |-> b, banco_nome |-> BankNameOf(b), descricao |-> << >>,
     nome_banco |-> << >>, cnpj |-> << >>, endereco |-> << >>,
     is_ativa |-> ativa, atualizado_em |-> t]

NoRow == NewRow("", FALSE, 0)

\* ------------------------------------------------------------------ SQL statements
\* excl = 0: no exclusion; excl = -1: exclude the row this transaction inserted
UpdateWhere(b, ex, oa) ==
    [k |-> "update_where", bank |-> b, excl |-> ex, onlyActive |-> oa,
     targets |-> {}, id |-> 0, row |-> NoRow, fields |-> "all"]

SaveStmt(pk, r, fs) ==
    [k |-> "save", bank |-> r.banco_id, excl |-> 0, onlyActive |-> FALSE,
     targets |-> {}, id |-> pk, row |-> r, fields |-> fs]

InsertStmt(r) ==
    [k |-> "insert", bank |-> r.banco_id, excl |-> 0, onlyActive |-> FALSE,
     targets |-> {}, id |-> 0, row |-> r, fields |-> "all"]

\* st: idle, open, committed, integrity_error (rolled back), deadlock (rolled back)
IdleTx == [st |-> "idle", target |-> 0, prog |-> << >>, writes |-> EmptyFn]

OpenTx(target, prog) ==
    [st |-> "open", target |-> target, prog |-> prog, writes |-> EmptyFn]

EndTx(st) == [st |-> st, target |-> 0, prog |-> << >>, writes |-> EmptyFn]

\* what a statement of p reads: committed rows and p's own uncommitted writes
View(p) == Merge(tx[p].writes, db)

LockedByOther(p, r) ==
    \E q \in Procs \ {p} : tx[q].st = "open" /\ r \in DOMAIN tx[q].writes

\* WHERE banco_id = b [AND is_ativa] [AND NOT pk = excl]
Matches(row, r, b, excl, onlyActive) ==
    /\ row.banco_id = b
    /\ onlyActive => row.is_ativa
    /\ r # excl

\* UniqueConstraint(fields=["banco_id"], condition=Q(is_ativa=True)):
\* a committed (or own) active row of the same banco_id other than pk id
UniqueViolationOff(view, id, row) == FALSE

UniqueViolation(view, id, row) ==
    /\ unique_active_descricaobanco_per_bank
    /\ row.is_ativa
    /\ \E r \in (DOMAIN view) \ {id} :
          view[r].is_ativa /\ view[r].banco_id = row.banco_id

\* an index check that looks at committed rows only and never waits
UniquePendingIgnored(p, id, row) == FALSE

\* the index entry that decides the check belongs to a transaction still open:
\* the statement waits for that transaction to end
UniquePending(p, id, row) ==
    /\ unique_active_descricaobanco_per_bank
    /\ row.is_ativa
    /\ \E q \in Procs \ {p} :
         /\ tx[q].st = "open"
         /\ \E r \in (DOMAIN tx[q].writes) \ {id} :
              \/ tx[q].writes[r].is_ativa /\ tx[q].writes[r].banco_id = row.banco_id
              \/ r \in DOMAIN db /\ db[r].is_ativa /\ db[r].banco_id = row.banco_id

\* rows whose verdict does not depend on an open transaction
SettledView(p) ==
    [r \in {x \in DOMAIN View(p) : ~LockedByOther(p, x)} |-> View(p)[r]]

CurStmt(p) == Head(tx[p].prog)

ExclId(p, s) == IF s.excl = -1 THEN tx[p].target ELSE s.excl

SaveId(p, s) == IF s.k = "insert" THEN nextId ELSE s.id

\* the row version a save writes: every field of the in-memory instance, or
\* (update_fields) only is_ativa and atualizado_em over the current version
SavedRow(p, s) ==
    IF s.fields = "all"
    THEN [s.row EXCEPT !.atualizado_em = now]
    ELSE [View(p)[s.id] EXCEPT !.is_ativa = TRUE, !.atualizado_em = now]

\* the open transactions p's current statement is waiting for
WaitsFor(p) ==
    IF tx[p].st # "open" \/ tx[p].prog = << >> THEN {}
    ELSE LET s == CurStmt(p) IN
         IF s.k = "update_apply"
         THEN {q \in Procs \ {p} : tx[q].st = "open" /\ s.targets \cap DOMAIN tx[q].writes # {}}
         ELSE IF s.k \in {"save", "insert"}
         THEN {q \in Procs \ {p} :
                 /\ tx[q].st = "open"
                 /\ \/ SaveId(p, s) \in DOMAIN tx[q].writes
                    \/ /\ unique_active_descricaobanco_per_bank
                       /\ (s.k = "insert" \/ s.id \in DOMAIN View(p))
                       /\ SavedRow(p, s).is_ativa
                       /\ \E r \in (DOMAIN tx[q].writes) \ {SaveId(p, s)} :
                            \/ tx[q].writes[r].is_ativa
                               /\ tx[q].writes[r].banco_id = SavedRow(p, s).banco_id
                            \/ r \in DOMAIN db /\ db[r].is_ativa
                               /\ db[r].banco_id = SavedRow(p, s).banco_id}
         ELSE {}

RECURSIVE Reach(_, _)
Reach(S, n) ==
    IF n = 0 THEN S
    ELSE Reach(S \cup UNION {WaitsFor(q) : q \in S}, n - 1)

Deadlocked(p) ==
    /\ WaitsFor(p) # {}
    /\ p \in Reach(WaitsFor(p), MaxProcs)

\* ------------------------------------------------------------------ operations on DescricaoBanco
\* validated_data of a (partial) update: which fields the request carries
UpdateData == [banco_id : Banks, is_ativa : BOOLEAN, has_ativa : BOOLEAN, has_bank : BOOLEAN]

SetAtivaData == [banco_id |-> "104", is_ativa |-> TRUE, has_ativa |-> TRUE, has_bank |-> FALSE]

\* ModelSerializer.update: setattr(instance, field, value) for each validated field
ApplyValidatedIgnored(inst, data) == inst

ApplyValidated(inst, data) ==
    [inst EXCEPT !.is_ativa = IF data.has_ativa THEN data.is_ativa ELSE inst.is_ativa,
                 !.banco_id = IF data.has_bank THEN data.banco_id ELSE inst.banco_id,
                 !.banco_nome = IF data.has_bank THEN BankNameOf(data.banco_id)
                                ELSE inst.banco_nome]

\* DescricaoBancoSerializer.create, inside transaction.atomic
CreateProgram(b, ativa) ==
    (IF ativa /\ b # "" THEN <<UpdateWhere(b, 0, TRUE)>> ELSE << >>)
    \o <<InsertStmt(NewRow(b, ativa, 0))>>

\* DescricaoBancoSerializer.update, inside transaction.atomic
UpdateProgram(id, inst, data) ==
    LET set_ativa == IF data.has_ativa THEN data.is_ativa ELSE inst.is_ativa
        banco_id  == IF data.has_bank THEN data.banco_id ELSE inst.banco_id
    IN  (IF set_ativa /\ banco_id # "" THEN <<UpdateWhere(banco_id, id, TRUE)>> ELSE << >>)
        \o <<SaveStmt(id, ApplyValidated(inst, data), "all")>>

\* ContaBancariaSerializer._maybe_create_descricao_banco, inside transaction.atomic
HookProgram(b, set_ativa) ==
    (IF set_ativa THEN <<UpdateWhere(b, 0, TRUE)>> ELSE << >>)
    \o <<InsertStmt(NewRow(b, set_ativa, 0))>>

\* DescricaoBancoAdmin.save_model: the save comes first, then the siblings
AdminSaveProgram(change, id, obj) ==
    <<IF change THEN SaveStmt(id, obj, "all") ELSE InsertStmt(obj)>>
    \o (IF obj.is_ativa /\ obj.banco_id # ""
        THEN <<UpdateWhere(obj.banco_id, IF change THEN id ELSE -1, FALSE)>> ELSE << >>)

\* DescricaoBancoAdmin.marcar_como_ativa: per banco_id of the selection, the most
\* recent selected row (atualizado_em, pk) is the one activated
Chosen(rows, table) ==
    CHOOSE r \in rows : \A o \in rows :
        \/ table[o].atualizado_em < table[r].atualizado_em
        \/ table[o].atualizado_em = table[r].atualizado_em /\ o <= r

RECURSIVE MarcarProgram(_, _, _)
MarcarProgram(i, queryset, table) ==
    IF i > Len(BankOrder) THEN << >>
    ELSE LET b == BankOrder[i]
             rows == {r \in queryset : table[r].banco_id = b}
         IN  (IF rows = {} THEN << >>
              ELSE <<UpdateWhere(b, 0, TRUE),
                     SaveStmt(Chosen(rows, table), table[Chosen(rows, table)], "ativa")>>)
             \o MarcarProgram(i + 1, queryset, table)

\* requests are numbered in the order they arrive
Begin(p, target, prog) ==
    /\ tx[p].st = "idle"
    /\ \A q \in Procs : q < p => tx[q].st # "idle"
    /\ pc = "idle"
    /\ tx' = [tx EXCEPT ![p] = OpenTx(target, prog)]
    /\ UNCHANGED <<db, nextId, now, renderVars, toolVars, cadVars,
                 unique_active_descricaobanco_per_bank>>

\* POST /bancos-descricoes/
DescricaoBanco_create(p) ==
    \E b \in Banks, ativa \in BOOLEAN :
        Begin(p, 0, CreateProgram(b, ativa))

\* PATCH /bancos-descricoes/{id}/ ; get_object() reads the instance before the transaction
DescricaoBanco_update(p) ==
    \E id \in DOMAIN db, data \in UpdateData :
        /\ data # SetAtivaData
        /\ IF data.has_bank THEN data.banco_id # db[id].banco_id ELSE data.banco_id = "104"
        /\ ~data.has_ativa => data.is_ativa = FALSE
        /\ Begin(p, id, UpdateProgram(id, db[id], data))

\* POST /bancos-descricoes/{id}/set-ativa/
set_ativa(p) ==
    \E id \in DOMAIN db :
        Begin(p, id, UpdateProgram(id, db[id], SetAtivaData))

\* ContaBancaria create / update carrying banco_id, descricao_banco, descricao_set_ativa
maybe_create_descricao_banco(p) ==
    \E b \in Banks \cup {""}, descricao \in {"", "texto"}, ativa \in BOOLEAN :
        IF b = "" \/ descricao = ""
        THEN /\ tx[p].st = "idle"
             /\ \A q \in Procs : q < p => tx[q].st # "idle"
             /\ pc = "idle"
             /\ tx' = [tx EXCEPT ![p] = EndTx("committed")]
             /\ UNCHANGED <<db, nextId, now, renderVars, toolVars, cadVars,
                 unique_active_descricaobanco_per_bank>>
        ELSE Begin(p, 0, HookProgram(b, ativa))

\* admin change / add form
save_model(p) ==
    \/ \E id \in DOMAIN db, b \in Banks, ativa \in BOOLEAN :
          Begin(p, id,
                AdminSaveProgram(TRUE, id,
                    ApplyValidated(db[id], [banco_id |-> b, is_ativa |-> ativa,
                                            has_ativa |-> TRUE, has_bank |-> TRUE])))
    \/ \E b \in Banks, ativa \in BOOLEAN :
          Begin(p, 0, AdminSaveProgram(FALSE, 0, NewRow(b, ativa, 0)))

\* admin action over a selection of rows
marcar_como_ativa(p) ==
    \E queryset \in (SUBSET DOMAIN db) \ {{}} :
        Begin(p, 0, MarcarProgram(1, queryset, db))

\* ------------------------------------------------------------------ the database executes statements
\* UPDATE ... WHERE: the statement's snapshot fixes the candidate rows
ExecUpdateWhere(p) ==
    /\ tx[p].st = "open" /\ tx[p].prog # << >>
    /\ CurStmt(p).k = "update_where"
    /\ LET s == CurStmt(p)
           targets == {r \in DOMAIN View(p) :
                          Matches(View(p)[r], r, s.bank, ExclId(p, s), s.onlyActive)}
       IN tx' = [tx EXCEPT ![p].prog =
                    <<[s EXCEPT !.k = "update_apply", !.targets = targets]>> \o Tail(tx[p].prog)]
    /\ UNCHANGED <<db, nextId, now, renderVars, toolVars, cadVars,
                 unique_active_descricaobanco_per_bank>>

\* ... each candidate is locked, its newest version re-checked against the WHERE
\* clause, and updated (is_ativa = False; QuerySet.update leaves atualizado_em).
\* Inside transaction.atomic the new versions stay private until the commit
ExecUpdateApplyAutocommit(p) ==
    /\ tx[p].st = "open" /\ tx[p].prog # << >>
    /\ CurStmt(p).k = "update_apply"
    /\ \A r \in CurStmt(p).targets : ~LockedByOther(p, r)
    /\ LET s == CurStmt(p)
           hit == {r \in s.targets :
                      Matches(View(p)[r], r, s.bank, ExclId(p, s), s.onlyActive)}
           w == [r \in hit |-> [View(p)[r] EXCEPT !.is_ativa = FALSE]]
       IN /\ tx' = [tx EXCEPT ![p].prog = Tail(tx[p].prog),
                              ![p].writes = Merge(w, tx[p].writes)]
          /\ db' = Merge(w, db)
    /\ UNCHANGED <<nextId, now, renderVars, toolVars, cadVars,
                 unique_active_descricaobanco_per_bank>>

ExecUpdateApply(p) ==
    /\ tx[p].st = "open" /\ tx[p].prog # << >>
    /\ CurStmt(p).k = "update_apply"
    /\ \A r \in CurStmt(p).targets : ~LockedByOther(p, r)
    /\ LET s == CurStmt(p)
           hit == {r \in s.targets :
                      Matches(View(p)[r], r, s.bank, ExclId(p, s), s.onlyActive)}
           w == [r \in hit |-> [View(p)[r] EXCEPT !.is_ativa = FALSE]]
       IN tx' = [tx EXCEPT ![p].prog = Tail(tx[p].prog),
                           ![p].writes = Merge(w, tx[p].writes)]
    /\ UNCHANGED <<db, nextId, now, renderVars, toolVars, cadVars,
                 unique_active_descricaobanco_per_bank>>

\* INSERT, or UPDATE ... WHERE id = pk, passing the unique index
ExecSave(p) ==
    /\ tx[p].st = "open" /\ tx[p].prog # << >>
    /\ CurStmt(p).k \in {"save", "insert"}
    /\ LET s == CurStmt(p)
           id == SaveId(p, s)
           row == SavedRow(p, s)
       IN /\ s.k = "insert" => nextId <= MaxRows
          /\ ~LockedByOther(p, id)
          /\ ~UniquePending(p, id, row)
          /\ ~UniqueViolation(SettledView(p), id, row)
          /\ tx' = [tx EXCEPT ![p].prog = Tail(tx[p].prog),
                              ![p].writes = Merge([r \in {id} |-> row], tx[p].writes),
                              ![p].target = IF s.k = "insert" THEN id ELSE tx[p].target]
          /\ nextId' = IF s.k = "insert" THEN nextId + 1 ELSE nextId
          /\ now' = now + 1
    /\ UNCHANGED <<db, renderVars, toolVars, cadVars,
                 unique_active_descricaobanco_per_bank>>

\* IntegrityError: the atomic block rolls back
ExecSaveIntegrityError(p) ==
    /\ tx[p].st = "open" /\ tx[p].prog # << >>
    /\ CurStmt(p).k \in {"save", "insert"}
    /\ LET s == CurStmt(p)
           id == SaveId(p, s)
           row == SavedRow(p, s)
       IN /\ s.k = "insert" => nextId <= MaxRows
          /\ ~LockedByOther(p, id)
          /\ UniqueViolation(SettledView(p), id, row)
          /\ nextId' = IF s.k = "insert" THEN nextId + 1 ELSE nextId
    /\ tx' = [tx EXCEPT ![p] = EndTx("integrity_error")]
    /\ UNCHANGED <<db, now, renderVars, toolVars, cadVars,
                 unique_active_descricaobanco_per_bank>>

\* leaving transaction.atomic normally
Commit(p) ==
    /\ tx[p].st = "open" /\ tx[p].prog = << >>
    /\ db' = Merge(tx[p].writes, db)
    /\ tx' = [tx EXCEPT ![p] = EndTx("committed")]
    /\ UNCHANGED <<nextId, now, renderVars, toolVars, cadVars,
                 unique_active_descricaobanco_per_bank>>

\* the database breaks a lock cycle by aborting one of its transactions
DeadlockAbort(p) ==
    /\ tx[p].st = "open"
    /\ Deadlocked(p)
    /\ tx' = [tx EXCEPT ![p] = EndTx("deadlock")]
    /\ UNCHANGED <<db, nextId, now, renderVars, toolVars, cadVars,
                 unique_active_descricaobanco_per_bank>>

\* ------------------------------------------------------------------ initial states
\* a store the program can be in: pks 1..k, at most one active row per banco_id
ValidStore(d) ==
    \A r1, r2 \in DOMAIN d :
        (r1 # r2 /\ d[r1].is_ativa /\ d[r2].is_ativa) => d[r1].banco_id # d[r2].banco_id

InitStores ==
    {d \in [1..InitRows -> {NewRow(b, a, 0) : b \in Banks, a \in BOOLEAN}] :
        ValidStore(d) /\ d[1].banco_id = "341"}

Stamp(d) == [r \in DOMAIN d |-> [d[r] EXCEPT !.atualizado_em = r]]

\* ------------------------------------------------------------------ JSON values
Absent   == [jt |-> "absent"]        \* the key is not in request.data
JNull    == [jt |-> "null"]
JBool(x) == [jt |-> "bool", bv |-> x]
JNum(x)  == [jt |-> "num", nv |-> x]
JStr(x)  == [jt |-> "str", sv |-> x]
JList(x) == [jt |-> "list", items |-> x]
JObj(x)  == [jt |-> "obj", kv |-> x]

\* bool(v) of a value taken from request.data or from a dict (None when absent)
Truthy(v) ==
    CASE v.jt = "bool" -> v.bv
      [] v.jt = "num"  -> v.nv # 0
      [] v.jt = "str"  -> v.sv # << >>
      [] v.jt = "list" -> v.items # << >>
      [] v.jt = "obj"  -> DOMAIN v.kv # {}
      [] OTHER         -> FALSE

\* v or {}
OrEmptyDict(v) == IF Truthy(v) THEN v ELSE JObj(EmptyFn)

\* dict.get(k)
Get(d, k) == IF k \in DOMAIN d THEN d[k] ELSE JNull

\* d[k] = v
Put(d, k, v) == [y \in (DOMAIN d) \cup {k} |-> IF y = k THEN v ELSE d[y]]

\* dict.setdefault(k, v)
SetDefault(d, k, v) == IF k \in DOMAIN d THEN d ELSE Put(d, k, v)

\* no render request is being handled
IdleRq == [endpoint |-> "none"]

\* POST .../render/: the request, the stored context it meets (petition.context for
\* a petition, the "context" member for a template) and the principal account of
\* the client
RenderRq(e, dx, d, c, o, sf, cid, cids, ct) ==
    [endpoint |-> e, docxtpl |-> dx, doc |-> d, context |-> c, context_override |-> o,
     strict |-> sf, cliente_id |-> cid, contratos_ids |-> cids, conta |-> ct]

\* Response(payload, status) / HttpResponse(bytes); kind names the detail message
Response(kd, code, ms, rs, ips, bd) ==
    [kind |-> kd, status |-> code, missing |-> ms, required |-> rs,
     invalid_prints |-> ips, body |-> bd]

NoResponse == Response("none", 0, << >>, << >>, << >>, "none")

\* the engine calls made so far and the state of the output buffer
NoEngine == [calls |-> << >>, buf |-> "none"]

InitRender ==
    /\ rq = IdleRq
    /\ pc = "idle"
    /\ ctx = JNull
    /\ chk = EmptyFn
    /\ eng = NoEngine
    /\ resp = NoResponse

\* no template utility is running
InitTool ==
    /\ arq = EmptyFn
    /\ ret = << >>

\* no Cliente or ContaBancaria request is running
InitCad ==
    /\ clientes = EmptyFn
    /\ contas = EmptyFn
    /\ call = EmptyFn

Init ==
    /\ \E d \in InitStores : db = Stamp(d)
    /\ nextId = Cardinality(DOMAIN db) + 1
    /\ now = MaxRows + 1
    /\ tx = [p \in Procs |-> IdleTx]
    /\ unique_active_descricaobanco_per_bank = TRUE
    /\ InitRender
    /\ InitTool
    /\ InitCad

Next ==
    \E p \in Procs :
        \/ DescricaoBanco_create(p)
        \/ DescricaoBanco_update(p)
        \/ set_ativa(p)
        \/ maybe_create_descricao_banco(p)
        \/ save_model(p)
        \/ marcar_como_ativa(p)
        \/ ExecUpdateWhere(p)
        \/ ExecUpdateApply(p)
        \/ ExecSave(p)
        \/ ExecSaveIntegrityError(p)
        \/ Commit(p)
        \/ DeadlockAbort(p)

Spec == Init /\ [][Next]_vars

\* only set-ativa requests arrive, on a store in which every registered bank has
\* its one active description
ExactlyOneActive(d) ==
    \A b \in Banks :
        (\E r \in DOMAIN d : d[r].banco_id = b)
            => Cardinality({r \in DOMAIN d : d[r].banco_id = b /\ d[r].is_ativa}) = 1

InitSetAtiva ==
    /\ \E d \in [1..MaxRows -> {NewRow(b, a, 0) : b \in Banks, a \in BOOLEAN}] :
          /\ ValidStore(d) /\ d[1].banco_id = "341" /\ ExactlyOneActive(d)
          /\ db = Stamp(d)
    /\ nextId = MaxRows + 1
    /\ now = MaxRows + 1
    /\ tx = [p \in Procs |-> IdleTx]
    /\ unique_active_descricaobanco_per_bank = TRUE
    /\ InitRender
    /\ InitTool
    /\ InitCad

NextSetAtiva ==
    \E p \in Procs :
        \/ set_ativa(p)
        \/ ExecUpdateWhere(p)
        \/ ExecUpdateApply(p)
        \/ ExecSave(p)
        \/ ExecSaveIntegrityError(p)
        \/ Commit(p)

SpecSetAtiva == InitSetAtiva /\ [][NextSetAtiva]_vars

\* only the serializers' activations arrive (create, update, set-ativa, and the
\* hook of the account serializer), on a store in which every registered bank has
\* its one active description
InitAtivacao ==
    /\ \E d \in InitStores : ExactlyOneActive(d) /\ db = Stamp(d)
    /\ nextId = InitRows + 1
    /\ now = MaxRows + 1
    /\ tx = [p \in Procs |-> IdleTx]
    /\ unique_active_descricaobanco_per_bank = TRUE
    /\ InitRender
    /\ InitTool
    /\ InitCad

NextAtivacao ==
    \E p \in Procs :
        \/ DescricaoBanco_create(p)
        \/ DescricaoBanco_update(p)
        \/ set_ativa(p)
        \/ maybe_create_descricao_banco(p)
        \/ ExecUpdateWhere(p)
        \/ ExecUpdateApply(p)
        \/ ExecSave(p)
        \/ ExecSaveIntegrityError(p)
        \/ Commit(p)
        \/ DeadlockAbort(p)

SpecAtivacao == InitAtivacao /\ [][NextAtivacao]_vars

\* the program of a set-ativa request on row id whose deactivating UPDATE has
\* taken its snapshot of the table (ExecUpdateWhere has run)
RacingProgram(id, table) ==
    LET prog == UpdateProgram(id, table[id], SetAtivaData)
        s == Head(prog)
        targets == {r \in DOMAIN table :
                       Matches(table[r], r, s.bank, s.excl, s.onlyActive)}
    IN  <<[s EXCEPT !.k = "update_apply", !.targets = targets]>> \o Tail(prog)

\* two set-ativa requests on different rows of one bank are both in their atomic
\* block and both past the snapshot of their deactivating UPDATE, so neither has
\* seen a commit of the other; the table has the partial unique index, or (the
\* application logic alone) has not
InitCorrida ==
    /\ \E d \in [1..MaxRows -> {NewRow(b, a, 0) : b \in Banks, a \in BOOLEAN}] :
          ValidStore(d) /\ db = Stamp(d)
    /\ \E r1, r2 \in DOMAIN db :
          /\ r1 # r2 /\ db[r1].banco_id = db[r2].banco_id
          /\ tx = [p \in Procs |->
                     IF p = 1 THEN OpenTx(r1, RacingProgram(r1, db))
                     ELSE IF p = 2 THEN OpenTx(r2, RacingProgram(r2, db))
                     ELSE EndTx("committed")]
    /\ unique_active_descricaobanco_per_bank \in BOOLEAN
    /\ nextId = MaxRows + 1
    /\ now = MaxRows + 1
    /\ InitRender
    /\ InitTool
    /\ InitCad

NextCorrida ==
    \E p \in Procs :
        \/ ExecUpdateApply(p)
        \/ ExecSave(p)
        \/ ExecSaveIntegrityError(p)
        \/ Commit(p)

SpecCorrida == InitCorrida /\ [][NextCorrida]_vars

\* ------------------------------------------------------------------ documents
\* a stored template file: a zip archive of named parts (or a file that is not one;
\* the upload validation looks at the extension and the size only)
NotAZip == [zip |-> FALSE, parts |-> << >>]

\* the scenario document: {{ nome_completo }} and {{ cpf }}
DocTwoVars ==
    [zip |-> TRUE, parts |-> <<
        [path |-> "word/document.xml", xml |-> <<
            "<w:p>", "<w:r>", "<w:t>", "{{", " ", "nome_completo", " ", "}}", "</w:t>", "</w:r>",
            "<w:r>", "<w:t>", "{{", " ", "cpf", " ", "}}", "</w:t>", "</w:r>", "</w:p>">>] >>]

\* a legacy token whose "<<" ends one part and whose ">>" begins the next
DocLegacySplit ==
    [zip |-> TRUE, parts |-> <<
        [path |-> "word/document.xml", xml |-> <<
            "<w:p>", "<w:t>", "{{", " ", "cpf", " ", "}}", "</w:t>", "</w:p>", "<", "<">>],
        [path |-> "word/header1.xml", xml |-> <<
            " ", "cidade", " ", ">", ">", "<w:p>", "</w:p>">>] >>]

\* the same legacy token over two parts, and no expression token
DocLegacySplitOnly ==
    [zip |-> TRUE, parts |-> <<
        [path |-> "word/document.xml", xml |-> <<
            "<w:p>", "</w:p>", "<", "<">>],
        [path |-> "word/header1.xml", xml |-> <<
            " ", "cidade", " ", ">", ">", "<w:p>", "</w:p>">>] >>]

\* a legacy token as Word stores it (escaped), next to {{ cpf }}
DocLegacyEscaped ==
    [zip |-> TRUE, parts |-> <<
        [path |-> "word/document.xml", xml |-> <<
            "<w:p>", "<w:t>", "&lt;", "&lt;", " ", "cidade", " ", "&gt;", "&gt;", "</w:t>",
            "<w:t>", "{{", " ", "cpf", " ", "}}", "</w:t>", "</w:p>">>] >>]

\* {{ nome completo }} (not an expression) and {{ cpf }}
DocInvalidPrint ==
    [zip |-> TRUE, parts |-> <<
        [path |-> "word/document.xml", xml |-> <<
            "<w:p>", "<w:t>", "{{", " ", "nome", " ", "completo", " ", "}}", "</w:t>",
            "<w:t>", "{{", " ", "cpf", " ", "}}", "</w:t>", "</w:p>">>] >>]

\* the bank variables
DocBankVars ==
    [zip |-> TRUE, parts |-> <<
        [path |-> "word/document.xml", xml |-> <<
            "<w:p>", "<w:t>", "{{", "banco", "}}", " ", "{{", "nome_banco", "}}", " ",
            "{{", "cnpj", "}}", " ", "{{", "endereco_banco", "}}", "</w:t>", "</w:p>">>] >>]

\* a variable split over two runs, a filter, a dotted path in a header, a control
\* block, and a variable in a part the scanner does not read
DocSplitFilterDotted ==
    [zip |-> TRUE, parts |-> <<
        [path |-> "word/document.xml", xml |-> <<
            "<w:p>", "<w:r>", "<w:t>", "{{", " ", "c", "</w:t>", "<w:t>", "pf", " ", "}}", "</w:t>",
            "</w:r>", "<w:r>", "<w:t>", "{{", " ", "cpf", " ", "|", " ", "cpf_format", " ", "}}",
            "</w:t>", "</w:r>", "<w:r>", "<w:t>", "{%", " ", "if", " ", "cidade", " ", "%}",
            "Texto", "{%", " ", "endif", " ", "%}", "</w:t>", "</w:r>", "</w:p>">>],
        [path |-> "word/header1.xml", xml |-> <<
            "<w:p>", "<w:t>", "{{", " ", "cliente", ".", "nome", " ", "}}", "</w:t>", "</w:p>">>],
        [path |-> "word/header4.xml", xml |-> <<
            "<w:p>", "<w:t>", "{{", " ", "CPF", " ", "}}", "</w:t>", "</w:p>">>] >>]

\* {{ cpf }} and a loop over the contracts that prints its loop variable
DocLoop ==
    [zip |-> TRUE, parts |-> <<
        [path |-> "word/document.xml", xml |-> <<
            "<w:p>", "<w:t>", "{{", " ", "cpf", " ", "}}", "{%", " ", "for", " ", "c", " ",
            "in", " ", "contratos", " ", "%}", "{{", " ", "c", " ", "}}", "{%", " ",
            "endfor", " ", "%}", "</w:t>", "</w:p>">>] >>]

\* ---- documents written in the legacy syntax only
\* the scenario token, typed literally into the part, next to parts the migrator
\* must not touch: an image whose bytes happen to contain "<< cidade >>" and a
\* byte that is not UTF-8, and the package properties; styles.xml is a word/*.xml
\* part that carries such a byte too. "resid^encia" stands for the word written
\* with e-circumflex
DocLegacyLiteral ==
    [zip |-> TRUE, parts |-> <<
        [path |-> "word/document.xml", xml |-> <<
            "<w:p>", "<w:t>", "<", "<", " ", "Cidade", " ", "de", " ", "resid^encia", " ",
            ">", ">", "</w:t>", "</w:p>">>],
        [path |-> "word/media/image1.png", xml |-> <<
            "0xFF", "<", "<", " ", "cidade", " ", ">", ">">>],
        [path |-> "docProps/core.xml", xml |-> <<"<", "<", " ", "cpf", " ", ">", ">">>],
        [path |-> "word/styles.xml", xml |-> <<"<w:p>", "0xFF", "</w:p>">>] >>]

\* the same token as Word stores it: "<" and ">" escaped
DocLegacyOnlyEscaped ==
    [zip |-> TRUE, parts |-> <<
        [path |-> "word/document.xml", xml |-> <<
            "<w:p>", "<w:t>", "&lt;", "&lt;", " ", "Cidade", " ", "de", " ", "resid^encia",
            " ", "&gt;", "&gt;", "</w:t>", "</w:p>">>] >>]

\* a token whose text begins with a digit
DocLegacyDigits ==
    [zip |-> TRUE, parts |-> <<
        [path |-> "word/document.xml", xml |-> <<
            "<w:p>", "<w:t>", "<", "<", " ", "104", " ", ">", ">", "</w:t>", "</w:p>">>] >>]

\* a token in a fourth header
DocLegacyHeader4 ==
    [zip |-> TRUE, parts |-> <<
        [path |-> "word/document.xml", xml |-> <<"<w:p>", "<w:t>", "Texto", "</w:t>", "</w:p>">>],
        [path |-> "word/header4.xml", xml |-> <<
            "<w:p>", "<w:t>", "<", "<", " ", "cidade", " ", ">", ">", "</w:t>", "</w:p>">>] >>]

\* a token with a "| hint" suffix and a token without a letter or digit
DocLegacyPipe ==
    [zip |-> TRUE, parts |-> <<
        [path |-> "word/document.xml", xml |-> <<
            "<w:p>", "<w:t>", "<", "<", " ", "cidade", " ", "|", " ", "Texto", " ", ">", ">",
            "<", "<", " ", "/", " ", ">", ">", "</w:t>", "</w:p>">>] >>]

\* a token opened inside the text of another one
DocLegacyNested ==
    [zip |-> TRUE, parts |-> <<
        [path |-> "word/document.xml", xml |-> <<
            "<w:p>", "<w:t>", "<", "<", " ", "banco", " ", "<", "<", " ", "cidade", " ",
            ">", ">", " ", "cpf", " ", ">", ">", "</w:t>", "</w:p>">>] >>]

\* no placeholder at all
DocPlain ==
    [zip |-> TRUE, parts |-> <<
        [path |-> "word/document.xml", xml |-> <<
            "<w:p>", "<w:t>", "Texto", "</w:t>", "</w:p>">>] >>]

\* ------------------------------------------------------------------ text
\* whitespace atoms (what \s matches)
WS == {" ", "\n"}

\* XML tags of a document part; the text-run tags are the ones _xml_to_plain joins
Tags == {"<w:p>", "</w:p>", "<w:r>", "</w:r>", "<w:t>", "</w:t>"}
TextOpenTags == {"<w:t>"}

\* atoms made of [A-Za-z_][A-Za-z0-9_]* and of digits
Names == {"CPF", "Cidade", "Texto", "_", "banco", "c", "campo", "cep_format", "cidade",
          "cliente", "cnpj", "completo", "contratos", "cpf", "cpf_format", "de",
          "endereco_banco", "endfor", "endif", "for", "if", "in", "municipio", "nome",
          "nome_banco", "nome_completo", "pf", "residencia"}
Numbers == {"104", "341", "1234567"}
Words == Names \cup Numbers
BlockWords == {"if", "for", "elif", "endif", "endfor"}

\* str.lower() on the atoms that carry upper-case letters
Lower(a) ==
    IF a = "CPF" THEN "cpf" ELSE IF a = "Texto" THEN "texto"
    ELSE IF a = "Cidade" THEN "cidade" ELSE a

\* the raw variable paths in the order sorted() gives them (code point order)
RawOrder == <<"CPF", "banco", "c", "campo", "cidade", "cidade_de_residencia", "cliente.nome", "cnpj", "cpf", "endereco_banco", "municipio",
              "nome", "nome_banco", "nome_completo">>

Range(s) == {s[i] : i \in DOMAIN s}

RECURSIVE Concat(_)
Concat(s) == IF s = << >> THEN "" ELSE Head(s) \o Concat(Tail(s))

RECURSIVE SkipWs(_, _)
SkipWs(s, i) == IF i <= Len(s) /\ s[i] \in WS THEN SkipWs(s, i + 1) ELSE i

RECURSIVE RStrip(_)
RStrip(s) == IF s # << >> /\ s[Len(s)] \in WS THEN RStrip(SubSeq(s, 1, Len(s) - 1)) ELSE s

\* str.strip()
Strip(s) == RStrip(SubSeq(s, SkipWs(s, 1), Len(s)))

\* first index >= i holding atom a, 0 if there is none
RECURSIVE NextAtom(_, _, _)
NextAtom(s, i, a) ==
    IF i > Len(s) THEN 0 ELSE IF s[i] = a THEN i ELSE NextAtom(s, i + 1, a)

\* re.sub(r"</w:t>\s*<w:t[^>]*>", "", xml)
RECURSIVE JoinRuns(_, _)
JoinRuns(s, i) ==
    IF i > Len(s) THEN << >>
    ELSE IF /\ s[i] = "</w:t>"
            /\ SkipWs(s, i + 1) <= Len(s)
            /\ s[SkipWs(s, i + 1)] \in TextOpenTags
         THEN JoinRuns(s, SkipWs(s, i + 1) + 1)
         ELSE <<s[i]>> \o JoinRuns(s, i + 1)

\* first index >= i of an atom holding the character ">", 0 if there is none
RECURSIVE NextClose(_, _)
NextClose(s, i) ==
    IF i > Len(s) THEN 0
    ELSE IF s[i] = ">" \/ s[i] \in Tags THEN i ELSE NextClose(s, i + 1)

\* re.sub(r"<[^>]+>", "", xml): a tag, or a bare "<" up to the next ">"
RECURSIVE StripTags(_, _)
StripTags(s, i) ==
    IF i > Len(s) THEN << >>
    ELSE IF s[i] \in Tags THEN StripTags(s, i + 1)
    ELSE IF /\ s[i] = "<"
            /\ NextClose(s, i + 1) # 0
            /\ ~(NextClose(s, i + 1) = i + 1 /\ s[i + 1] = ">")
         THEN StripTags(s, NextClose(s, i + 1) + 1)
         ELSE <<s[i]>> \o StripTags(s, i + 1)

\* re.sub(r"\s+", " ", xml)
RECURSIVE Collapse(_, _)
Collapse(s, i) ==
    IF i > Len(s) THEN << >>
    ELSE IF s[i] \in WS
         THEN (IF i > 1 /\ s[i - 1] \in WS THEN << >> ELSE <<" ">>) \o Collapse(s, i + 1)
         ELSE <<s[i]>> \o Collapse(s, i + 1)

xml_to_plain(xml) == Collapse(StripTags(JoinRuns(xml, 1), 1), 1)

\* names accepted by the startswith("word/") / endswith(...) test of _read_xml_from_docx
ScannedParts == {"word/document.xml", "word/header1.xml", "word/header2.xml",
                 "word/header3.xml", "word/footer1.xml", "word/footer2.xml",
                 "word/footer3.xml", "word/footnotes.xml", "word/endnotes.xml"}

RECURSIVE JoinParts(_)
JoinParts(ps) ==
    IF ps = << >> THEN << >>
    ELSE IF Len(ps) = 1 THEN Head(ps)
    ELSE Head(ps) \o <<"\n">> \o JoinParts(Tail(ps))

read_xml_from_docx(docx) ==
    LET sel == SelectSeq(docx.parts, LAMBDA part : part.path \in ScannedParts)
    IN  JoinParts([i \in 1..Len(sel) |-> xml_to_plain(sel[i].xml)])

\* ANGLE_TAG_RE = <<\s*([^<>]+?)\s*>> matched at position i
AngleMatchAt(txt, i) ==
    /\ i + 1 <= Len(txt)
    /\ txt[i] = "<" /\ txt[i + 1] = "<"
    /\ \E j \in (i + 3)..(Len(txt) - 1) :
          /\ txt[j] = ">" /\ txt[j + 1] = ">"
          /\ \A m \in (i + 2)..(j - 1) : txt[m] \notin {"<", ">"}

detect_angle_brackets(docx) ==
    LET txt == read_xml_from_docx(docx)
    IN  \E i \in 1..Len(txt) : AngleMatchAt(txt, i)

\* index after the longest run of [\w\.] atoms starting at j
RECURSIVE PathEnd(_, _)
PathEnd(txt, j) ==
    IF j <= Len(txt) /\ (txt[j] \in Words \/ txt[j] = ".") THEN PathEnd(txt, j + 1) ELSE j

RECURSIVE WordEnd(_, _)
WordEnd(txt, j) == IF j <= Len(txt) /\ txt[j] \in Words THEN WordEnd(txt, j + 1) ELSE j

\* JINJA_VAR_RE = {{\s*([a-zA-Z_][\w\.]*)\s*}} matched at position i
VarMatchAt(txt, i) ==
    /\ txt[i] = "{{"
    /\ LET j == SkipWs(txt, i + 1)
       IN /\ j <= Len(txt) /\ txt[j] \in Names
          /\ LET k == SkipWs(txt, PathEnd(txt, j))
             IN k <= Len(txt) /\ txt[k] = "}}"

\* group(1) of the match at i, as atoms
VarAt(txt, i) ==
    LET j == SkipWs(txt, i + 1) IN SubSeq(txt, j, PathEnd(txt, j) - 1)

\* JINJA_BLOCK_RE = {%\s*(if|for|elif|endif|endfor)\b.*?%}
BlockMatchAt(txt, i) ==
    /\ txt[i] = "{%"
    /\ LET k == SkipWs(txt, i + 1)
       IN /\ k <= Len(txt) /\ txt[k] \in BlockWords
          /\ (k + 1 <= Len(txt) => txt[k + 1] \notin Words)
          /\ \E j \in (k + 1)..Len(txt) :
                txt[j] = "%}" /\ \A m \in (k + 1)..(j - 1) : txt[m] # "\n"

\* "_{2,}" -> "_" over atoms
RECURSIVE CollapseUnderscores(_, _)
CollapseUnderscores(s, i) ==
    IF i > Len(s) THEN << >>
    ELSE IF s[i] = "_" /\ i > 1 /\ s[i - 1] = "_" THEN CollapseUnderscores(s, i + 1)
    ELSE <<s[i]>> \o CollapseUnderscores(s, i + 1)

\* str.strip("_") over atoms
RECURSIVE StripUnderscores(_)
StripUnderscores(s) ==
    IF s # << >> /\ Head(s) = "_" THEN StripUnderscores(Tail(s))
    ELSE IF s # << >> /\ s[Len(s)] = "_" THEN StripUnderscores(SubSeq(s, 1, Len(s) - 1))
    ELSE s

\* s.replace(".", "_"), "_{2,}" -> "_", strip("_"), lower()
SnakeAtoms(run) ==
    LET replaced == [i \in 1..Len(run) |-> IF run[i] = "." THEN "_" ELSE run[i]]
        trimmed == StripUnderscores(CollapseUnderscores(replaced, 1))
    IN  [i \in 1..Len(trimmed) |-> Lower(trimmed[i])]

snake_case(run) == Concat(SnakeAtoms(run))

\* vars_ = sorted({m.group(1) ...}); fields = [{raw, name, type}]
extract_jinja_fields(docx) ==
    LET txt == read_xml_from_docx(docx)
        runs == {VarAt(txt, i) : i \in {x \in 1..Len(txt) : VarMatchAt(txt, x)}}
        raws == {Concat(r) : r \in runs}
        vars_ == SelectSeq(RawOrder, LAMBDA v : v \in raws)
        fs == [i \in 1..Len(vars_) |->
                  [raw |-> vars_[i],
                   name |-> snake_case(CHOOSE r \in runs : Concat(r) = vars_[i]),
                   type |-> "string"]]
    IN  [fields |-> fs,
         syntax |-> IF fs # << >> \/ \E i \in 1..Len(txt) : BlockMatchAt(txt, i)
                    THEN "jinja" ELSE "unknown"]

\* PRINT_ANY_RE = {{\s*(.*?)\s*}} : the stripped inner text of every match from i on
RECURSIVE PrintsFrom(_, _)
PrintsFrom(txt, i) ==
    IF i > Len(txt) THEN << >>
    ELSE IF txt[i] # "{{" THEN PrintsFrom(txt, i + 1)
    ELSE LET j == NextAtom(txt, i + 1, "}}")
         IN  IF j = 0 THEN << >>
             ELSE IF "\n" \in Range(Strip(SubSeq(txt, i + 1, j - 1)))
                  THEN PrintsFrom(txt, i + 1)
                  ELSE <<Strip(SubSeq(txt, i + 1, j - 1))>> \o PrintsFrom(txt, j + 1)

\* the filter chain (?:\s*\|\s*[A-Za-z_]\w*(?:\([^\)]*\))?)*$ from position i
RECURSIVE FiltersOk(_, _)
FiltersOk(s, i) ==
    IF i > Len(s) THEN TRUE
    ELSE LET b == SkipWs(s, i)
             n == SkipWs(s, b + 1)
             e == WordEnd(s, n + 1)
         IN  /\ b <= Len(s) /\ s[b] = "|"
             /\ n <= Len(s) /\ s[n] \in Names
             /\ IF e <= Len(s) /\ s[e] = "("
                THEN NextAtom(s, e + 1, ")") # 0 /\ FiltersOk(s, NextAtom(s, e + 1, ")") + 1)
                ELSE FiltersOk(s, e)

\* _ALLOWED_EXPR_RE.match(inner)
AllowedExpr(inner) ==
    /\ inner # << >>
    /\ inner[1] \in Names
    /\ FiltersOk(inner, PathEnd(inner, 1))

find_invalid_jinja_prints(docx) ==
    SelectSeq(PrintsFrom(read_xml_from_docx(docx), 1), LAMBDA inner : ~AllowedExpr(inner))

\* ------------------------------------------------------------------ bank resolution
None == << >>
Some(x) == <<x>>

TextOfId(b) == IF b = "" THEN << >> ELSE <<b>>

\* digit atoms of 1 to 6 digits: what \d{1,6} can match
ShortNumbers == {"104", "341"}

\* name.strip(), then re.sub(r"\s*\(\d{1,6}\)\s*$", "", name)
normalize_bank_name(name) ==
    LET n == Strip(name)
    IN  IF /\ Len(n) >= 3
           /\ n[Len(n)] = ")" /\ n[Len(n) - 1] \in ShortNumbers /\ n[Len(n) - 2] = "("
        THEN RStrip(SubSeq(n, 1, Len(n) - 3))
        ELSE n

\* DescricaoBanco.objects.filter(is_ativa=True)
ActiveRowsAnyFlag(table) == DOMAIN table

ActiveRows(table) == {r \in DOMAIN table : table[r].is_ativa}

\* filter(banco_id=banco_codigo) if the code is not empty, elif the name is not
\* empty filter(banco_nome=normalized name); with both empty there is no filter
MatchesAccountNameFirst(row, banco_codigo, banco_nome) ==
    IF banco_nome # << >> THEN row.banco_nome = normalize_bank_name(banco_nome)
    ELSE IF banco_codigo # << >> THEN TextOfId(row.banco_id) = banco_codigo
    ELSE TRUE

MatchesAccount(row, banco_codigo, banco_nome) ==
    IF banco_codigo # << >> THEN TextOfId(row.banco_id) = banco_codigo
    ELSE IF banco_nome # << >> THEN row.banco_nome = normalize_bank_name(banco_nome)
    ELSE TRUE

\* order_by("-atualizado_em").first()
MostRecent(rows, table) ==
    IF rows = {} THEN None
    ELSE Some(CHOOSE r \in rows : \A o \in rows : table[o].atualizado_em <= table[r].atualizado_em)

\* a or b or c
FirstNonEmpty(a, b, c) == IF a # << >> THEN a ELSE IF b # << >> THEN b ELSE c

get_banco_descricao_ativa(conta, table) ==
    IF conta = None THEN None
    ELSE LET banco_codigo == Strip(conta[1].banco_codigo)
             banco_nome == Strip(conta[1].banco_nome)
             qs == {r \in ActiveRows(table) : MatchesAccount(table[r], banco_codigo, banco_nome)}
             obj == MostRecent(qs, table)
         IN  IF obj = None THEN None
             ELSE Some([nome_banco |-> Strip(FirstNonEmpty(table[obj[1]].nome_banco,
                                                           table[obj[1]].banco_nome, banco_nome)),
                        cnpj |-> Strip(table[obj[1]].cnpj),
                        endereco_banco |-> Strip(table[obj[1]].endereco)])

\* SEP.join(parts), SEP being " ", U+2014 (em dash), " ", written " -- " here
RECURSIVE JoinDash(_)
JoinDash(ps) ==
    IF ps = << >> THEN << >>
    ELSE IF Len(ps) = 1 THEN Head(ps)
    ELSE Head(ps) \o <<" -- ">> \o JoinDash(Tail(ps))

format_banco_string(desc, fallback_nome) ==
    IF desc = None THEN fallback_nome
    ELSE LET nome == Strip(desc[1].nome_banco)
             cnpj == Strip(desc[1].cnpj)
             endereco == Strip(desc[1].endereco_banco)
             ps == (IF nome # << >> THEN <<nome>> ELSE << >>)
                   \o (IF cnpj # << >> THEN <<(<<"CNPJ: ">> \o cnpj)>> ELSE << >>)
                   \o (IF endereco # << >> THEN <<endereco>> ELSE << >>)
         IN  IF JoinDash(ps) # << >> THEN JoinDash(ps) ELSE fallback_nome

\* v is None or (isinstance(v, str) and not v.strip())
is_emptyAlways(v) == TRUE

is_empty(v) == v.jt = "null" \/ (v.jt = "str" /\ Strip(v.sv) = << >>)

\* lines 165-185 of the petition render: fill the bank fields of the data map
FillIfEmpty(d, k, v) == IF is_empty(Get(d, k)) THEN Put(d, k, JStr(v)) ELSE d

ResolveBank(context, conta, table) ==
    LET desc_ativa == get_banco_descricao_ativa(conta, table)
        fallback_nome == IF conta = None THEN << >> ELSE conta[1].banco_nome
        c0 == IF ~Truthy(Get(context, "banco"))
              THEN Put(context, "banco", JStr(format_banco_string(desc_ativa, fallback_nome)))
              ELSE context
    IN  IF desc_ativa = None THEN c0
        ELSE FillIfEmpty(FillIfEmpty(FillIfEmpty(c0, "nome_banco", desc_ativa[1].nome_banco),
                                     "cnpj", desc_ativa[1].cnpj),
                         "endereco_banco", desc_ativa[1].endereco_banco)

\* ------------------------------------------------------------------ validation
\* bool(request.data.get("strict", True))
strict_flagNever(v) == FALSE

strict_flag(v) == IF v = Absent THEN TRUE ELSE Truthy(v)

\* [f for f in required if f not in provided]
MissingNone(required, provided) == << >>

Missing(required, provided) == SelectSeq(required, LAMBDA f : f \notin provided)

validate_context_against_template(docx, context) ==
    LET fs == extract_jinja_fields(docx).fields
        required == [i \in 1..Len(fs) |-> fs[i].name]
    IN  [missing |-> Missing(required, DOMAIN context),
         required |-> required,
         syntax |-> extract_jinja_fields(docx).syntax,
         has_angle |-> detect_angle_brackets(docx)]

\* ------------------------------------------------------------------ the rendering engine
\* parts docxtpl renders: the body and every header and footer
EngineParts == {"word/document.xml", "word/header1.xml", "word/header2.xml",
                "word/header3.xml", "word/header4.xml", "word/footer1.xml",
                "word/footer2.xml", "word/footer3.xml"}

\* filters of build_env()
EnvFilters == {"cpf_format", "cep_format"}

FilterNames(inner) ==
    {inner[SkipWs(inner, i + 1)] : i \in {x \in 1..(Len(inner) - 1) : inner[x] = "|"}}

\* compiling the template: a print that does not parse or names an unknown filter
\* raises wherever it stands
PrintCompileRaises(inner) ==
    \/ ~AllowedExpr(inner)
    \/ FilterNames(inner) \ EnvFilters # {}

\* Environment(undefined=StrictUndefined): a print raises when it does not compile
\* or, evaluated, reaches an undefined name or attribute (the default Undefined
\* would print an empty string instead)
PrintRaisesBlank(inner, context) == PrintCompileRaises(inner)

PrintRaises(inner, context) ==
    \/ PrintCompileRaises(inner)
    \/ inner[1] \notin DOMAIN context
    \/ /\ Len(inner) >= 3 /\ inner[2] = "."
       /\ \/ context[inner[1]].jt # "obj"
          \/ inner[3] \notin DOMAIN context[inner[1]].kv

\* position of the next {% word ... %} tag at or after i, or 0
RECURSIVE NextBlock(_, _, _)
NextBlock(txt, i, word) ==
    IF i > Len(txt) THEN 0
    ELSE IF txt[i] = "{%" /\ SkipWs(txt, i + 1) <= Len(txt) /\ txt[SkipWs(txt, i + 1)] = word
         THEN i
         ELSE NextBlock(txt, i + 1, word)

\* Jinja evaluates the template in order. {% for x in xs %} needs xs defined and
\* iterable and runs its body once per item with x bound to it (never on an empty
\* list); {% if name %} / {% elif name %} needs name defined and skips its body
\* when the value is false. A skipped body is still compiled. Blocks of one kind
\* are not nested in the documents at hand.
RECURSIVE RenderRaisesFrom(_, _, _)
RenderRaisesFrom(txt, i, context) ==
    IF i > Len(txt) THEN FALSE
    ELSE IF txt[i] = "{{"
    THEN LET j == NextAtom(txt, i + 1, "}}")
         IN  IF j = 0 THEN TRUE
             ELSE \/ PrintRaises(Strip(SubSeq(txt, i + 1, j - 1)), context)
                  \/ RenderRaisesFrom(txt, j + 1, context)
    ELSE IF txt[i] = "{%" /\ BlockMatchAt(txt, i)
    THEN LET w == SkipWs(txt, i + 1)
             n == SkipWs(txt, w + 1)
             close == NextAtom(txt, i + 1, "%}")
         IN  IF txt[w] = "for"
             THEN LET it == SkipWs(txt, SkipWs(txt, n + 1) + 1)
                      e == NextBlock(txt, close + 1, "endfor")
                      body == SubSeq(txt, close + 1, e - 1)
                  IN  \/ e = 0
                      \/ txt[it] \notin DOMAIN context
                      \/ context[txt[it]].jt # "list"
                      \/ \E inner \in Range(PrintsFrom(body, 1)) : PrintCompileRaises(inner)
                      \/ \E k \in 1..Len(context[txt[it]].items) :
                            RenderRaisesFrom(body, 1, Put(context, txt[n], context[txt[it]].items[k]))
                      \/ RenderRaisesFrom(txt, e, context)
             ELSE IF txt[w] \in {"if", "elif"}
             THEN LET e == NextBlock(txt, close + 1, "endif")
                      body == SubSeq(txt, close + 1, e - 1)
                  IN  \/ e = 0
                      \/ n <= Len(txt) /\ txt[n] \in Names /\ txt[n] \notin DOMAIN context
                      \/ \E inner \in Range(PrintsFrom(body, 1)) : PrintCompileRaises(inner)
                      \/ /\ n <= Len(txt) /\ txt[n] \in DOMAIN context /\ Truthy(context[txt[n]])
                         /\ RenderRaisesFrom(body, 1, context)
                      \/ RenderRaisesFrom(txt, e, context)
             ELSE RenderRaisesFrom(txt, close + 1, context)
    ELSE RenderRaisesFrom(txt, i + 1, context)

\* doc.render(context, jinja_env=env) raises
EngineRenderRaises(docx, context) ==
    \E i \in 1..Len(docx.parts) :
        /\ docx.parts[i].path \in EngineParts
        /\ \/ "<" \in Range(docx.parts[i].xml) \/ ">" \in Range(docx.parts[i].xml)
           \/ RenderRaisesFrom(xml_to_plain(docx.parts[i].xml), 1, context)

\* ------------------------------------------------------------------ the migrator
\* bytes that are not UTF-8: decode("utf-8", errors="ignore") drops them
InvalidBytes == {"0xFF"}

\* words written with an accented letter
AccentedWords == {"resid^encia"}

\* archive names passing name.startswith("word/") and name.endswith(".xml")
WordXmlParts == EngineParts \cup ScannedParts \cup {"word/styles.xml"}

\* lower(), NFKD + encode("ascii", "ignore") on one word
SlugWord(a) == IF a = "resid^encia" THEN "residencia" ELSE Lower(a)

\* strip, lower, drop accents, [^a-z0-9]+ -> "_", "_+" -> "_", strip("_"), or "campo"
slugify_placeholder(raw) ==
    LET replaced == [i \in 1..Len(raw) |->
                        IF raw[i] \in (Words \cup AccentedWords) \ {"_"}
                        THEN SlugWord(raw[i]) ELSE "_"]
        trimmed == StripUnderscores(CollapseUnderscores(replaced, 1))
    IN  IF trimmed = << >> THEN <<"campo">> ELSE trimmed

\* the ">>" closing a token whose text runs up to j: its index, or 0 when a "<" or
\* ">" (a tag included) comes first
RECURSIVE AngleClose(_, _)
AngleClose(xml, j) ==
    IF j + 1 > Len(xml) THEN 0
    ELSE IF xml[j] = ">" /\ xml[j + 1] = ">" THEN j
    ELSE IF xml[j] \in {"<", ">"} \cup Tags THEN 0
    ELSE AngleClose(xml, j + 1)

\* ANGLE_RE = <<\s*([^<>]+?)\s*>> matched at position i of a part's XML
AngleTokenAt(xml, i) ==
    /\ i + 2 <= Len(xml)
    /\ xml[i] = "<" /\ xml[i + 1] = "<"
    /\ xml[i + 2] \notin {"<", ">"} \cup Tags
    /\ AngleClose(xml, i + 3) # 0

\* m.group(1).split("|", 1)[0].strip()
RawOfToken(xml, i) ==
    LET inner == SubSeq(xml, i + 2, AngleClose(xml, i + 3) - 1)
        bar == NextAtom(inner, 1, "|")
    IN  Strip(IF bar = 0 THEN inner ELSE SubSeq(inner, 1, bar - 1))

\* ANGLE_RE.sub(repl, xml): leftmost matches, never overlapping
RECURSIVE AngleSub(_, _, _)
AngleSub(xml, i, mapping) ==
    IF i > Len(xml) THEN << >>
    ELSE IF AngleTokenAt(xml, i)
    THEN LET raw == RawOfToken(xml, i)
             mapped == IF Concat(raw) \in DOMAIN mapping THEN mapping[Concat(raw)] ELSE << >>
             safe == IF mapped # << >> THEN mapped ELSE slugify_placeholder(raw)
         IN  <<"{{", " ">> \o safe \o <<" ", "}}">>
             \o AngleSub(xml, AngleClose(xml, i + 3) + 2, mapping)
    ELSE <<xml[i]>> \o AngleSub(xml, i + 1, mapping)

\* the archive written to the temporary file: every part in order, the word/*.xml
\* ones decoded, rewritten and encoded again
convert_angle_to_jinja(docx, mapping) ==
    [zip |-> TRUE,
     parts |-> [i \in 1..Len(docx.parts) |->
                  IF docx.parts[i].path \in WordXmlParts
                  THEN [path |-> docx.parts[i].path,
                        xml |-> AngleSub(SelectSeq(docx.parts[i].xml,
                                                   LAMBDA a : a \notin InvalidBytes), 1, mapping)]
                  ELSE docx.parts[i]]]

\* ------------------------------------------------------------------ render requests
Docx(d) ==
    CASE d = "two_vars"             -> DocTwoVars
      [] d = "legacy_split"         -> DocLegacySplit
      [] d = "legacy_split_only"    -> DocLegacySplitOnly
      [] d = "legacy_escaped"       -> DocLegacyEscaped
      [] d = "invalid_print"        -> DocInvalidPrint
      [] d = "bank_vars"            -> DocBankVars
      [] d = "split_filter_dotted"  -> DocSplitFilterDotted
      [] d = "plain"                -> DocPlain
      [] d = "loop"                 -> DocLoop
      [] d = "legacy_literal"       -> DocLegacyLiteral
      [] d = "legacy_only_escaped"  -> DocLegacyOnlyEscaped
      [] d = "legacy_digits"        -> DocLegacyDigits
      [] d = "legacy_header4"       -> DocLegacyHeader4
      [] d = "legacy_pipe"          -> DocLegacyPipe
      [] d = "legacy_nested"        -> DocLegacyNested
      [] OTHER                      -> NotAZip

DocNames == {"two_vars", "legacy_split", "legacy_escaped", "invalid_print", "bank_vars",
             "split_filter_dotted", "plain", "loop", "not_a_zip"}

\* the client of the request (pk 1), its contracts (pks), and what the prefill copies
ClienteIds == {1}
ClienteContratos == <<1>>
ClienteNomeCompleto == <<"Ana Silva">>
ClienteCpf == <<"12345678901">>
ClienteCidade == <<"Recife">>

\* a value usable as a primary key in a lookup (anything else raises ValueError)
ValidPk(v) ==
    \/ v.jt = "num"
    \/ v.jt = "str" /\ Len(v.sv) = 1 /\ v.sv[1] \in Numbers

\* except Exception as exc: Response({"detail": str(exc)}, 400)
ExceptionResponsePartial(buf) == Response("render_exception", 400, << >>, << >>, << >>, buf)

ExceptionResponse(buf) == Response("render_exception", 400, << >>, << >>, << >>, "none")

\* an exception leaves the handler: the framework answers 500 without a payload
Uncaught == Response("uncaught", 500, << >>, << >>, << >>, "none")

DependencyUnavailable == Response("dependency_unavailable", 500, << >>, << >>, << >>, "none")

\* lines 148-160: dependency check, the two maps, their merge
PetitionViewSet_render_context ==
    /\ pc = "start" /\ rq.endpoint = "petition"
    /\ LET base_ctx == OrEmptyDict(rq.context)
           override == OrEmptyDict(rq.context_override)
       IN  IF ~rq.docxtpl
           THEN resp' = DependencyUnavailable /\ pc' = "done" /\ ctx' = ctx
           ELSE IF base_ctx.jt # "obj" \/ override.jt # "obj"
           THEN /\ resp' = Response("invalid_context", 400, << >>, << >>, << >>, "none")
                /\ pc' = "done" /\ ctx' = ctx
           ELSE ctx' = JObj(Merge(override.kv, base_ctx.kv)) /\ pc' = "bank" /\ resp' = resp
    /\ UNCHANGED <<rq, chk, eng, storeVars, toolVars, cadVars>>

\* lines 165-185: bank fields from the principal account and the active description
PetitionViewSet_render_banco ==
    /\ pc = "bank" /\ rq.endpoint = "petition"
    /\ ctx' = JObj(ResolveBank(ctx.kv, rq.conta, db))
    /\ pc' = "contratos"
    /\ UNCHANGED <<rq, chk, eng, resp, storeVars, toolVars, cadVars>>

\* lines 191-220: the client's contracts, filtered by contratos_ids when it is a
\* non-empty list; the filter is built outside any try block
PetitionViewSet_render_contratos ==
    /\ pc = "contratos" /\ rq.endpoint = "petition"
    /\ LET contratos_ids == IF rq.contratos_ids = Absent THEN JList(<< >>) ELSE rq.contratos_ids
           filtered == contratos_ids.jt = "list" /\ contratos_ids.items # << >>
           wanted == IF filtered THEN {it.nv : it \in {x \in Range(contratos_ids.items) : x.jt = "num"}}
                     ELSE {}
           contratos == IF filtered THEN SelectSeq(ClienteContratos, LAMBDA c : c \in wanted)
                        ELSE ClienteContratos
       IN  IF filtered /\ \E it \in Range(contratos_ids.items) : ~ValidPk(it)
           THEN resp' = Uncaught /\ pc' = "done" /\ ctx' = ctx
           ELSE /\ ctx' = JObj(Put(Put(Put(ctx.kv,
                                "contratos", JList([i \in 1..Len(contratos) |-> JNum(contratos[i])])),
                                "total_contratos", JNum(Len(contratos))),
                                "contratos_ids_utilizados", contratos_ids))
                /\ pc' = "gate" /\ resp' = resp
    /\ UNCHANGED <<rq, chk, eng, storeVars, toolVars, cadVars>>

\* lines 225-248: strict flag, the template file, the checks and their rejections.
\* Petition.template is a protected foreign key, so the template row exists; the
\* stored file is read by the scanner outside any try block
PetitionViewSet_render_validate ==
    /\ pc = "gate" /\ rq.endpoint = "petition"
    /\ IF ~Docx(rq.doc).zip
       THEN resp' = Uncaught /\ pc' = "done" /\ chk' = chk
       ELSE LET check == validate_context_against_template(Docx(rq.doc), ctx.kv)
            IN  /\ chk' = check
                /\ IF check.has_angle
                   THEN /\ resp' = Response("unmigrated_syntax", 400, << >>, << >>, << >>, "none")
                        /\ pc' = "done"
                   ELSE IF strict_flag(rq.strict) /\ check.missing # << >>
                   THEN /\ resp' = Response("missing_variables", 400, check.missing,
                                            check.required, << >>, "none")
                        /\ pc' = "done"
                   ELSE resp' = resp /\ pc' = "open"
    /\ UNCHANGED <<rq, ctx, eng, storeVars, toolVars, cadVars>>

\* DocxTemplate(str(file_path)): opening the template succeeds or raises
EngineOpen(usable) ==
    /\ eng' = [eng EXCEPT !.calls = Append(@, "open")]
    /\ \E ok \in BOOLEAN :
          IF ok /\ usable THEN pc' = "render" /\ resp' = resp
          ELSE pc' = "done" /\ resp' = ExceptionResponse(eng.buf)
    /\ UNCHANGED <<rq, ctx, chk, storeVars, toolVars, cadVars>>

\* doc.render(context, jinja_env=env)
EngineRender ==
    /\ eng' = [eng EXCEPT !.calls = Append(@, "render")]
    /\ IF EngineRenderRaises(Docx(rq.doc), ctx.kv)
       THEN pc' = "done" /\ resp' = ExceptionResponse(eng.buf)
       ELSE pc' = "save" /\ resp' = resp
    /\ UNCHANGED <<rq, ctx, chk, storeVars, toolVars, cadVars>>

\* buf = BytesIO(); doc.save(buf); HttpResponse(buf.read()): saving completes, or
\* raises after part of the archive has been written to the buffer. The target is
\* the in-memory buffer, never the template's path or the petition's output field
EngineSaveOverTemplate ==
    /\ \E ok \in BOOLEAN :
          IF ok
          THEN /\ eng' = [calls |-> Append(eng.calls, "save"), buf |-> "complete"]
               /\ resp' = Response("document", 200, << >>, << >>, << >>, "complete")
          ELSE /\ eng' = [calls |-> Append(eng.calls, "save"), buf |-> "partial"]
               /\ resp' = ExceptionResponse("partial")
    /\ pc' = "done"
    /\ rq' = [rq EXCEPT !.doc = "plain"]
    /\ UNCHANGED <<ctx, chk, storeVars, toolVars, cadVars>>

EngineSave ==
    /\ \E ok \in BOOLEAN :
          IF ok
          THEN /\ eng' = [calls |-> Append(eng.calls, "save"), buf |-> "complete"]
               /\ resp' = Response("document", 200, << >>, << >>, << >>, "complete")
          ELSE /\ eng' = [calls |-> Append(eng.calls, "save"), buf |-> "partial"]
               /\ resp' = ExceptionResponse("partial")
    /\ pc' = "done"
    /\ UNCHANGED <<rq, ctx, chk, storeVars, toolVars, cadVars>>

\* lines 250-268 of the petition render
PetitionViewSet_render_open ==
    pc = "open" /\ rq.endpoint = "petition" /\ EngineOpen(TRUE)

PetitionViewSet_render_doc_render ==
    pc = "render" /\ rq.endpoint = "petition" /\ EngineRender

PetitionViewSet_render_doc_save ==
    pc = "save" /\ rq.endpoint = "petition" /\ EngineSave

\* lines 62-88 of the template render: dependency, legacy syntax, invalid prints
TemplateViewSet_render_checks ==
    /\ pc = "start" /\ rq.endpoint = "template"
    /\ IF ~rq.docxtpl
       THEN resp' = DependencyUnavailable /\ pc' = "done" /\ chk' = chk
       ELSE IF ~Docx(rq.doc).zip
       THEN resp' = Uncaught /\ pc' = "done" /\ chk' = chk
       ELSE LET has_angle == detect_angle_brackets(Docx(rq.doc))
                invalid_prints == IF has_angle THEN << >>
                                  ELSE find_invalid_jinja_prints(Docx(rq.doc))
            IN  /\ chk' = [invalid_prints |-> invalid_prints, has_angle |-> has_angle]
                /\ IF has_angle
                   THEN /\ resp' = Response("unmigrated_syntax", 400, << >>, << >>, << >>, "none")
                        /\ pc' = "done"
                   ELSE IF invalid_prints # << >>
                   THEN /\ resp' = Response("invalid_expression_syntax", 400, << >>, << >>,
                                            invalid_prints, "none")
                        /\ pc' = "done"
                   ELSE resp' = resp /\ pc' = "prefill"
    /\ UNCHANGED <<rq, ctx, eng, storeVars, toolVars, cadVars>>

\* lines 90-113: the context and the prefill from cliente_id; only
\* Cliente.DoesNotExist is caught
TemplateViewSet_render_prefill ==
    /\ pc = "prefill" /\ rq.endpoint = "template"
    /\ LET context == OrEmptyDict(rq.context)
           cliente_id == rq.cliente_id
           pk == IF cliente_id.jt = "num" THEN cliente_id.nv ELSE 1
           rows == IF rq.conta = None THEN {}
                   ELSE {r \in DOMAIN db : db[r].is_ativa /\ db[r].banco_nome = rq.conta[1].banco_nome}
           desc == MostRecent(rows, db)
           banco == IF desc = None THEN rq.conta[1].banco_nome ELSE db[desc[1]].descricao
       IN  IF ~Truthy(cliente_id)
           THEN ctx' = context /\ pc' = "open" /\ resp' = resp
           ELSE IF ~ValidPk(cliente_id)
           THEN ctx' = ctx /\ pc' = "done" /\ resp' = Uncaught
           ELSE IF pk \notin ClienteIds \/ rq.conta = None
           THEN ctx' = context /\ pc' = "open" /\ resp' = resp
           ELSE IF context.jt # "obj"
           THEN ctx' = ctx /\ pc' = "done" /\ resp' = Uncaught
           ELSE /\ ctx' = JObj(SetDefault(SetDefault(SetDefault(SetDefault(context.kv,
                                   "banco", JStr(banco)),
                                   "nome_completo", JStr(ClienteNomeCompleto)),
                                   "cpf", JStr(ClienteCpf)),
                                   "cidade", JStr(ClienteCidade)))
                /\ pc' = "open" /\ resp' = resp
    /\ UNCHANGED <<rq, chk, eng, storeVars, toolVars, cadVars>>

\* lines 115-162: opening, context.get("imagem_do_contrato") (an AttributeError on
\* a context that is not a dict, caught by the except), rendering, saving
TemplateViewSet_render_open ==
    pc = "open" /\ rq.endpoint = "template" /\ EngineOpen(ctx.jt = "obj")

TemplateViewSet_render_doc_render ==
    pc = "render" /\ rq.endpoint = "template" /\ EngineRender

TemplateViewSet_render_doc_save ==
    pc = "save" /\ rq.endpoint = "template" /\ EngineSave

\* ---- the requests and stores the render handlers are run on
ContaOf(nome, codigo) == Some([banco_nome |-> nome, banco_codigo |-> codigo])

DefaultConta == ContaOf(<<"Banco X", " ", "(", "341", ")">>, <<"341">>)

Contas ==
    {None, DefaultConta,
     ContaOf(<<"Banco X", " ", "(", "341", ")">>, << >>),
     ContaOf(<<"Banco X">>, <<"104">>),
     ContaOf(<<"Banco Y">>, << >>)}

\* a description with its structured fields filled in
FullRow(b, ativa) ==
    [NewRow(b, ativa, 0) EXCEPT !.descricao = <<"Banco X S.A., instituicao financeira">>,
                                !.nome_banco = <<"Banco X S.A.">>,
                                !.cnpj = <<"60.701.190/0001-04">>,
                                !.endereco = <<"Praca A, 100">>]

RenderRows == {FullRow("341", a) : a \in BOOLEAN} \cup {NewRow(b, a, 0) : b \in Banks, a \in BOOLEAN}

RenderStores ==
    {d \in [1..InitRows -> RenderRows] : ValidStore(d) /\ d[1].nome_banco # << >>}

DefaultStore == [r \in 1..InitRows |-> IF r = 1 THEN FullRow("341", TRUE) ELSE NewRow("104", r = 2, 0)]

Ctx1(k, v) == JObj([y \in {k} |-> v])

BaseContexts ==
    {JObj(EmptyFn),
     Ctx1("nome_completo", JStr(<<"Ana Silva">>)),
     JObj([y \in {"nome_completo", "cpf"} |-> JStr(<<"Ana Silva">>)]),
     JObj([y \in {"cliente_nome", "cpf"} |-> JStr(<<"Ana Silva">>)]),
     JList(<<JNum(1)>>)}

Overrides == {Absent, Ctx1("cpf", JStr(<<"12345678901">>)), Ctx1("cpf", JStr(<< >>)),
              Ctx1("cpf", JNull), JList(<<JNum(1)>>)}

StrictValues == {Absent, JBool(TRUE), JBool(FALSE), JStr(<<"false">>)}

ContratosIds == {Absent, JList(<<JNum(1)>>), JList(<<JNum(2)>>), JList(<<JStr(<<"abc">>)>>)}

ClienteIdValues == {Absent, JNum(1), JNum(2), JStr(<<"abc">>)}

BankKeys == {"banco", "nome_banco", "cnpj", "endereco_banco"}

BankValues == {JNull, JStr(<< >>), JStr(<<" ">>), JStr(<<"Meu Banco">>), JNum(0), JBool(FALSE)}

BankContexts ==
    {JObj(EmptyFn)} \cup
    {JObj([y \in K |-> v]) : K \in {{k} : k \in BankKeys} \cup {BankKeys}, v \in BankValues}

GateRequests ==
    {RenderRq("petition", TRUE, d, c, o, sf, Absent, cids, DefaultConta) :
        d \in DocNames, c \in BaseContexts, o \in Overrides, sf \in StrictValues,
        cids \in ContratosIds}

ResolverRequests ==
    {RenderRq("petition", TRUE, "bank_vars", c, Absent, Absent, Absent, Absent, ct) :
        c \in BankContexts, ct \in Contas}

TemplateRequests ==
    {RenderRq("template", TRUE, d, c, Absent, Absent, cid, Absent, ct) :
        d \in DocNames, c \in BaseContexts, cid \in ClienteIdValues, ct \in {None, DefaultConta}}

NoDependencyRequests ==
    {RenderRq(e, FALSE, "two_vars", JObj(EmptyFn), Absent, Absent, Absent, Absent, None) :
        e \in {"petition", "template"}}

RenderInputs ==
    ((GateRequests \cup TemplateRequests \cup NoDependencyRequests) \X {DefaultStore})
    \cup (ResolverRequests \X RenderStores)

InitRenderSpec ==
    /\ \E input \in RenderInputs : rq = input[1] /\ db = Stamp(input[2])
    /\ nextId = InitRows + 1
    /\ now = MaxRows + 1
    /\ tx = [p \in Procs |-> IdleTx]
    /\ unique_active_descricaobanco_per_bank = TRUE
    /\ pc = "start"
    /\ ctx = JNull
    /\ chk = EmptyFn
    /\ eng = NoEngine
    /\ resp = NoResponse
    /\ InitTool
    /\ InitCad

NextRender ==
    \/ PetitionViewSet_render_context
    \/ PetitionViewSet_render_banco
    \/ PetitionViewSet_render_contratos
    \/ PetitionViewSet_render_validate
    \/ PetitionViewSet_render_open
    \/ PetitionViewSet_render_doc_render
    \/ PetitionViewSet_render_doc_save
    \/ TemplateViewSet_render_checks
    \/ TemplateViewSet_render_prefill
    \/ TemplateViewSet_render_open
    \/ TemplateViewSet_render_doc_render
    \/ TemplateViewSet_render_doc_save

SpecRender == InitRenderSpec /\ [][NextRender]_vars

\* ------------------------------------------------------------------ template utilities
\* GET .../fields/ on a template, or a run of the migrator on its file
ToolRq(e, d, m) == [endpoint |-> e, doc |-> d, mapping |-> m]

\* GET /api/templates/{id}/fields/: the three scans, outside any try block
TemplateViewSet_fields ==
    /\ pc = "start" /\ rq.endpoint = "fields"
    /\ IF ~arq["template"].zip
       THEN resp' = Uncaught /\ chk' = chk
       ELSE LET scan == extract_jinja_fields(arq["template"])
                has_angle == detect_angle_brackets(arq["template"])
                invalid == find_invalid_jinja_prints(arq["template"])
            IN  /\ chk' = [fields |-> scan.fields,
                           invalid_prints |-> invalid,
                           syntax |-> IF has_angle THEN "jinja (mixed: angle present)"
                                      ELSE scan.syntax]
                /\ resp' = Response("fields", 200, << >>, << >>, invalid, "none")
    /\ pc' = "done"
    /\ UNCHANGED <<rq, ctx, eng, storeVars, toolVars, cadVars>>

\* a migrator that writes its result over the archive it read as well
MigrateInPlace(src, dst, after) ==
    /\ IF ~arq[src].zip
       THEN arq' = Put(arq, dst, NotAZip) /\ ret' = ret /\ pc' = "raised"
       ELSE /\ arq' = Put(Put(arq, dst, convert_angle_to_jinja(arq[src], rq.mapping)),
                          src, convert_angle_to_jinja(arq[src], rq.mapping))
            /\ ret' = Append(ret, dst)
            /\ pc' = after
    /\ UNCHANGED <<rq, ctx, chk, eng, resp, storeVars, cadVars>>

\* convert_angle_to_jinja(src, mapping): the temporary file is created first, then
\* the source is opened (BadZipFile leaves the empty temporary file behind), then
\* every part is written to the temporary archive, whose name is returned
Migrate(src, dst, after) ==
    /\ IF ~arq[src].zip
       THEN arq' = Put(arq, dst, NotAZip) /\ ret' = ret /\ pc' = "raised"
       ELSE /\ arq' = Put(arq, dst, convert_angle_to_jinja(arq[src], rq.mapping))
            /\ ret' = Append(ret, dst)
            /\ pc' = after
    /\ UNCHANGED <<rq, ctx, chk, eng, resp, storeVars, cadVars>>

\* the migrator on the template's file
MigrateTemplate == pc = "start" /\ rq.endpoint = "migrate" /\ Migrate("template", "tmp1", "migrated")

\* the migrator on its own output
MigrateAgain == pc = "migrated" /\ rq.endpoint = "migrate" /\ Migrate("tmp1", "tmp2", "remigrated")

\* the scanner on the migrator's output
ScanMigrated ==
    /\ pc = "migrated" /\ rq.endpoint = "migrate"
    /\ chk' = extract_jinja_fields(arq["tmp1"])
    /\ pc' = "scanned"
    /\ UNCHANGED <<rq, ctx, eng, resp, storeVars, toolVars, cadVars>>

\* documents written in the legacy syntax only
LegacyOnlyDocNames == {"legacy_literal", "legacy_only_escaped", "legacy_digits",
                       "legacy_header4", "legacy_pipe", "legacy_nested",
                       "legacy_split_only"}

\* raw token text -> canonical name
Mappings ==
    {EmptyFn,
     [k \in {"Cidade de resid^encia"} |-> <<"municipio">>],
     [k \in {"cidade"} |-> << >>]}

ToolRequests ==
    {ToolRq("migrate", d, m) : d \in DocNames \cup LegacyOnlyDocNames, m \in Mappings}
    \cup {ToolRq("fields", d, EmptyFn) : d \in DocNames \cup LegacyOnlyDocNames}

InitTemplates ==
    /\ \E input \in ToolRequests :
          rq = input /\ arq = [n \in {"template"} |-> Docx(input.doc)]
    /\ ret = << >>
    /\ db = Stamp(DefaultStore)
    /\ nextId = InitRows + 1
    /\ now = MaxRows + 1
    /\ tx = [p \in Procs |-> IdleTx]
    /\ unique_active_descricaobanco_per_bank = TRUE
    /\ pc = "start"
    /\ ctx = JNull
    /\ chk = EmptyFn
    /\ eng = NoEngine
    /\ resp = NoResponse
    /\ InitCad

NextTemplates ==
    \/ TemplateViewSet_fields
    \/ MigrateTemplate
    \/ MigrateAgain
    \/ ScanMigrated

SpecTemplates == InitTemplates /\ [][NextTemplates]_vars

\* ------------------------------------------------------------------ cadastro
\* Cliente and ContaBancaria rows live in two tables whose primary keys are the
\* positions 1, 2, ...; no row is ever deleted (Cliente.destroy is a soft delete).
\* The connection is in autocommit mode: every statement is one atomic step.
Cpfs == {"11144477735", "52998224725"}
NotSent == "missing"

ClienteRow(cpf, active) == [cpf |-> cpf, is_active |-> active]
ContaRow(cliente, principal) == [cliente |-> cliente, is_principal |-> principal]

\* a request in progress: the operation, the primary key of the instance (0 on
\* create), the validated attributes (NotSent / 0 / "absent" when not sent), the
\* instance as loaded by get_object(), the position in the handler, the response
\* and the number of requests the worker has started
CallOf(op, id, cpf, cliente, principal, inst, at, status, n) ==
    [pc |-> at, id |-> id, n |-> n, inst |-> inst, status |-> status, cpf |-> cpf,
     cliente |-> cliente, principal |-> principal, op |-> op]

NoInstance == << >>
IdleCall == CallOf("none", 0, NotSent, 0, "absent", NoInstance, "idle", "none", 0)

Free(p) == call[p].pc \in {"idle", "done"} /\ call[p].n < MaxCalls

\* the response is sent; the serializer and its instance are dropped
Finish(p, status) ==
    [call EXCEPT ![p] = CallOf(call[p].op, 0, NotSent, 0, "absent", NoInstance,
                               "done", status, call[p].n)]

\* Cliente.objects.filter(cpf=...).first(): the default ordering is by name; rows
\* with one CPF are at most one, so the first is the only one
ClienteByCpf(cpf) == {i \in DOMAIN clientes : clientes[i].cpf = cpf}

\* the unique index on cliente.cpf, checked by INSERT and UPDATE on every row but
\* the written one
CpfTaken(cpf, self) == \E i \in DOMAIN clientes : i # self /\ clientes[i].cpf = cpf

\* the partial unique index unique_principal_per_cliente
PrincipalTaken(cliente, self) ==
    \E i \in DOMAIN contas :
        i # self /\ contas[i].cliente = cliente /\ contas[i].is_principal

\* ClienteSerializer.validate on POST /clientes/: the CPF is looked up only when
\* there is no instance
ClienteSerializer_validate_create(p) ==
    /\ Free(p)
    /\ \E cpf \in Cpfs :
          LET found == ClienteByCpf(cpf)
          IN  IF \E i \in found : clientes[i].is_active
              THEN call' = [call EXCEPT ![p] =
                              CallOf("cliente_create", 0, cpf, 0, "absent", NoInstance,
                                     "done", "400 ValidationError", call[p].n + 1)]
              ELSE call' = [call EXCEPT ![p] =
                              CallOf("cliente_create", 0, cpf, 0, "absent", NoInstance,
                                     "validated", "none", call[p].n + 1)]
    /\ UNCHANGED <<clientes, contas, storeVars, renderVars, toolVars>>

\* a create() that looks among the active clients only: an inactive client with
\* the CPF is not found and the request goes on to super().create
ClienteSerializer_create_active_only(p) ==
    /\ call[p].op = "cliente_create" /\ call[p].pc = "validated"
    /\ IF \E i \in ClienteByCpf(call[p].cpf) : clientes[i].is_active
       THEN call' = Finish(p, "400 ValidationError")
       ELSE call' = [call EXCEPT ![p].pc = "insert"]
    /\ UNCHANGED <<clientes, contas, storeVars, renderVars, toolVars>>

\* ClienteSerializer.create up to its branch: active -> ValidationError, inactive
\* -> the row is updated with the new data and activated, none -> super().create
ClienteSerializer_create(p) ==
    /\ call[p].op = "cliente_create" /\ call[p].pc = "validated"
    /\ LET found == ClienteByCpf(call[p].cpf)
       IN  IF found = {}
           THEN call' = [call EXCEPT ![p].pc = "insert"] /\ clientes' = clientes
           ELSE LET i == CHOOSE x \in found : TRUE
                IN  IF clientes[i].is_active
                    THEN call' = Finish(p, "400 ValidationError") /\ clientes' = clientes
                    ELSE /\ call' = [call EXCEPT ![p].pc = "restore",
                                                 ![p].id = i, ![p].inst = <<clientes[i]>>]
                         /\ clientes' = clientes
    /\ UNCHANGED <<contas, storeVars, renderVars, toolVars>>

\* cliente_existente.save(): UPDATE of every column of the loaded row
ClienteSerializer_create_restore(p) ==
    /\ call[p].op = "cliente_create" /\ call[p].pc = "restore"
    /\ IF CpfTaken(call[p].cpf, call[p].id)
       THEN call' = Finish(p, "500 IntegrityError cpf") /\ clientes' = clientes
       ELSE /\ clientes' = [clientes EXCEPT ![call[p].id] = ClienteRow(call[p].cpf, TRUE)]
            /\ call' = [call EXCEPT ![p] =
                           CallOf("cliente_create", call[p].id, call[p].cpf, 0, "absent",
                                  NoInstance, "done", "201", call[p].n)]
    /\ UNCHANGED <<contas, storeVars, renderVars, toolVars>>

\* super().create(validated_data): INSERT, checked by the unique index on cpf
ClienteSerializer_create_insert(p) ==
    /\ call[p].op = "cliente_create" /\ call[p].pc = "insert"
    /\ Len(clientes) < MaxClientes
    /\ IF CpfTaken(call[p].cpf, 0)
       THEN call' = Finish(p, "500 IntegrityError cpf") /\ clientes' = clientes
       ELSE /\ clientes' = Append(clientes, ClienteRow(call[p].cpf, TRUE))
            /\ call' = Finish(p, "201")
    /\ UNCHANGED <<contas, storeVars, renderVars, toolVars>>

\* PUT/PATCH /clientes/{id}/ up to the end of validation: get_object() reads the
\* active clients only; validate() checks nothing when there is an instance
ClienteSerializer_validate_update(p) ==
    /\ Free(p)
    /\ \E id \in DOMAIN clientes, cpf \in Cpfs \cup {NotSent} :
          IF ~clientes[id].is_active
          THEN call' = [call EXCEPT ![p] =
                          CallOf("cliente_update", 0, NotSent, 0, "absent", NoInstance,
                                 "done", "404", call[p].n + 1)]
          ELSE call' = [call EXCEPT ![p] =
                          CallOf("cliente_update", id, cpf, 0, "absent", <<clientes[id]>>,
                                 "validated", "none", call[p].n + 1)]
    /\ UNCHANGED <<clientes, contas, storeVars, renderVars, toolVars>>

\* ModelSerializer.update: setattr for every validated attribute, instance.save()
ClienteSerializer_update(p) ==
    /\ call[p].op = "cliente_update" /\ call[p].pc = "validated"
    /\ LET inst == call[p].inst[1]
           row == ClienteRow(IF call[p].cpf = NotSent THEN inst.cpf ELSE call[p].cpf,
                             inst.is_active)
       IN  IF CpfTaken(row.cpf, call[p].id)
           THEN call' = Finish(p, "500 IntegrityError cpf") /\ clientes' = clientes
           ELSE /\ clientes' = [clientes EXCEPT ![call[p].id] = row]
                /\ call' = Finish(p, "200")
    /\ UNCHANGED <<contas, storeVars, renderVars, toolVars>>

\* DELETE /clientes/{id}/: soft delete of an active client
ClienteViewSet_destroy(p) ==
    /\ Free(p)
    /\ \E id \in DOMAIN clientes :
          IF ~clientes[id].is_active
          THEN /\ call' = [call EXCEPT ![p] =
                             CallOf("cliente_destroy", 0, NotSent, 0, "absent", NoInstance,
                                    "done", "404", call[p].n + 1)]
               /\ clientes' = clientes
          ELSE /\ call' = [call EXCEPT ![p] =
                             CallOf("cliente_destroy", id, NotSent, 0, "absent", NoInstance,
                                    "done", "204", call[p].n + 1)]
               /\ clientes' = [clientes EXCEPT ![id].is_active = FALSE]
    /\ UNCHANGED <<contas, storeVars, renderVars, toolVars>>

\* the is_active query parameter of a request: not sent, or sent as false / true
IsActiveParams == {"none", "false", "true"}

\* get_object() = get_object_or_404(filter_queryset(get_queryset())): get_queryset
\* keeps the active clients when the request has no is_active parameter, and the
\* filter backend applies the parameter when there is one
Visible(row, is_active_param) ==
    IF is_active_param = "false" THEN ~row.is_active ELSE row.is_active

\* POST /clientes/{id}/restore/
ClienteViewSet_restore(p) ==
    /\ Free(p)
    /\ \E id \in DOMAIN clientes, is_active_param \in IsActiveParams :
          LET op == IF is_active_param = "none" THEN "cliente_restore"
                    ELSE "cliente_restore?is_active=" \o is_active_param
          IN  IF ~Visible(clientes[id], is_active_param)
              THEN /\ call' = [call EXCEPT ![p] =
                                 CallOf(op, id, NotSent, 0, "absent", NoInstance,
                                        "done", "404", call[p].n + 1)]
                   /\ clientes' = clientes
              ELSE IF clientes[id].is_active
              THEN /\ call' = [call EXCEPT ![p] =
                                 CallOf(op, id, NotSent, 0, "absent", NoInstance,
                                        "done", "400 already active", call[p].n + 1)]
                   /\ clientes' = clientes
              ELSE /\ call' = [call EXCEPT ![p] =
                                 CallOf(op, id, NotSent, 0, "absent", NoInstance,
                                        "done", "200", call[p].n + 1)]
                   /\ clientes' = [clientes EXCEPT ![id].is_active = TRUE]
    /\ UNCHANGED <<contas, storeVars, renderVars, toolVars>>

\* attrs.get("is_principal", False)
IsPrincipalAttr(principal) == principal = "true"

\* ContaBancariaSerializer.validate: the rule is looked at only when the attributes
\* carry is_principal = true; the client is the attribute or the instance's
ContaBancariaSerializer_validate(p) ==
    /\ Free(p)
    /\ \E op \in {"conta_create", "conta_update", "conta_partial_update"},
          id \in {0} \cup DOMAIN contas,
          cliente \in {0} \cup DOMAIN clientes,
          principal \in {"absent", "true", "false"} :
          /\ (op = "conta_create") = (id = 0)
          /\ op # "conta_partial_update" => cliente # 0
          /\ LET inst == IF id = 0 THEN NoInstance ELSE <<contas[id]>>
                 target == IF cliente # 0 THEN cliente
                           ELSE IF id # 0 THEN contas[id].cliente ELSE 0
             IN  IF IsPrincipalAttr(principal) /\ target # 0 /\ PrincipalTaken(target, id)
                 THEN call' = [call EXCEPT ![p] =
                                 CallOf(op, 0, NotSent, 0, "absent", NoInstance,
                                        "done", "400 ValidationError", call[p].n + 1)]
                 ELSE call' = [call EXCEPT ![p] =
                                 CallOf(op, id, NotSent, cliente, principal, inst,
                                        "validated", "none", call[p].n + 1)]
    /\ UNCHANGED <<clientes, contas, storeVars, renderVars, toolVars>>

\* ContaBancariaSerializer.create: INSERT, checked by unique_principal_per_cliente;
\* the request carries no banco_id / descricao_banco, so the DescricaoBanco hook
\* returns at once
ContaBancariaSerializer_create(p) ==
    /\ call[p].op = "conta_create" /\ call[p].pc = "validated"
    /\ Len(contas) < MaxContas
    /\ LET row == ContaRow(call[p].cliente, IsPrincipalAttr(call[p].principal))
       IN  IF row.is_principal /\ PrincipalTaken(row.cliente, 0)
           THEN call' = Finish(p, "500 IntegrityError principal") /\ contas' = contas
           ELSE /\ contas' = Append(contas, row)
                /\ call' = Finish(p, "201")
    /\ UNCHANGED <<clientes, storeVars, renderVars, toolVars>>

\* ContaBancariaSerializer.update: setattr for every validated attribute on the
\* loaded instance, instance.save() (UPDATE of every column)
ContaBancariaSerializer_update(p) ==
    /\ call[p].op \in {"conta_update", "conta_partial_update"} /\ call[p].pc = "validated"
    /\ LET inst == call[p].inst[1]
           row == ContaRow(IF call[p].cliente = 0 THEN inst.cliente ELSE call[p].cliente,
                           IF call[p].principal = "absent" THEN inst.is_principal
                           ELSE IsPrincipalAttr(call[p].principal))
       IN  IF row.is_principal /\ PrincipalTaken(row.cliente, call[p].id)
           THEN call' = Finish(p, "500 IntegrityError principal") /\ contas' = contas
           ELSE /\ contas' = [contas EXCEPT ![call[p].id] = row]
                /\ call' = Finish(p, "200")
    /\ UNCHANGED <<clientes, storeVars, renderVars, toolVars>>

\* tables the requests arrive on: one active client with a principal account,
\* alone or with a second client, active or not, that has a principal account
CadastroStores ==
    {[clientes |-> <<ClienteRow("11144477735", TRUE)>>, contas |-> <<ContaRow(1, TRUE)>>]}
    \cup {[clientes |-> <<ClienteRow("11144477735", TRUE), ClienteRow("52998224725", a)>>,
           contas |-> <<ContaRow(1, TRUE), ContaRow(2, TRUE)>>] : a \in BOOLEAN}

InitCadastro ==
    /\ \E st \in CadastroStores : clientes = st.clientes /\ contas = st.contas
    /\ call = [p \in Procs |-> IdleCall]
    /\ db = Stamp(DefaultStore)
    /\ nextId = InitRows + 1
    /\ now = MaxRows + 1
    /\ tx = [p \in Procs |-> IdleTx]
    /\ unique_active_descricaobanco_per_bank = TRUE
    /\ InitRender
    /\ InitTool

NextCadastro ==
    \E p \in Procs :
        \/ ClienteSerializer_validate_create(p)
        \/ ClienteSerializer_create(p)
        \/ ClienteSerializer_create_restore(p)
        \/ ClienteSerializer_create_insert(p)
        \/ ClienteSerializer_validate_update(p)
        \/ ClienteSerializer_update(p)
        \/ ClienteViewSet_destroy(p)
        \/ ClienteViewSet_restore(p)
        \/ ContaBancariaSerializer_validate(p)
        \/ ContaBancariaSerializer_create(p)
        \/ ContaBancariaSerializer_update(p)

SpecCadastro == InitCadastro /\ [][NextCadastro]_vars

\* ------------------------------------------------------------------ claims
AtMostOneActive(d) ==
    \A b \in Banks : Cardinality({r \in DOMAIN d : d[r].banco_id = b /\ d[r].is_ativa}) <= 1

\* C1: in every reachable state, for every banco_id at most one DescricaoBanco row
\* has is_ativa = true, in the committed table and in what each open transaction
\* sees, under any interleaving of create, update, set-ativa, the ContaBancaria
\* hook, admin save and the admin action
C1_AtMostOneActivePerBank ==
    /\ AtMostOneActive(db)
    /\ \A p \in Procs : tx[p].st = "open" => AtMostOneActive(View(p))

\* the uniqueness constraint has refused a second active row while another
\* request committed, and a bank has its active row
C1_Witness ==
    /\ \E p, q \in Procs : tx[p].st = "committed" /\ tx[q].st = "integrity_error"
    /\ \E r \in DOMAIN db : db[r].is_ativa

\* C2: with A the active row of a bank, set-ativa requests on rows of that bank,
\* also concurrent ones, leave exactly one active row for the bank in every
\* committed state (after each commit, and once all have committed or aborted)
C2_ExactlyOneActiveAfterSetAtiva == ExactlyOneActive(db)

\* two set-ativa requests on different rows of one bank raced: one committed, the
\* other was refused by the constraint and rolled back
C2_Witness ==
    /\ \E p, q \in Procs : tx[p].st = "committed" /\ tx[q].st = "integrity_error"
    /\ \A p \in Procs : tx[p].st # "open"

\* ---- vocabulary of the render claims
Rendering == rq.endpoint \in {"petition", "template"}

\* the handler has built the data map and resolved the bank fields
AfterBank ==
    /\ rq.endpoint = "petition"
    /\ pc \in {"contratos", "gate", "open", "render", "save", "done"}
    /\ ctx.jt = "obj"

\* the petition handler has run its checks on a readable document
AfterGate ==
    /\ rq.endpoint = "petition"
    /\ Docx(rq.doc).zip
    /\ \/ pc \in {"open", "render", "save"}
       \/ pc = "done" /\ resp.kind \in {"unmigrated_syntax", "missing_variables",
                                        "render_exception", "document"}

\* the raw data map: stored context merged with the overrides
RawMap == Merge(OrEmptyDict(rq.context_override).kv, OrEmptyDict(rq.context).kv)

ObjectContext ==
    OrEmptyDict(rq.context).jt = "obj" /\ OrEmptyDict(rq.context_override).jt = "obj"

StrictRequested == rq.strict \in {Absent, JBool(TRUE)}

RequiredNames ==
    [i \in 1..Len(extract_jinja_fields(Docx(rq.doc)).fields) |->
        extract_jinja_fields(Docx(rq.doc)).fields[i].name]

MissingNames == SelectSeq(RequiredNames, LAMBDA f : f \notin DOMAIN ctx.kv)

\* a value every reading calls non-empty: a string with a visible character
NonEmptyValue(v) == v.jt = "str" /\ Strip(v.sv) # << >>

\* the rows carrying the bank identifier of the principal account: its code when
\* it has one, else its normalized name
IdentifierRows ==
    LET banco_codigo == Strip(rq.conta[1].banco_codigo)
    IN  IF banco_codigo # << >>
        THEN {r \in DOMAIN db : <<db[r].banco_id>> = banco_codigo}
        ELSE {r \in DOMAIN db : db[r].banco_nome = normalize_bank_name(rq.conta[1].banco_nome)}

\* the resolver acted on an account, on a raw map without any bank field
ResolvedFromAccount ==
    AfterBank /\ rq.conta # None /\ BankKeys \cap DOMAIN RawMap = {}

\* C3: a render request (either endpoint, docxtpl available, object contexts) on a
\* document in which detect_angle_brackets finds a legacy token ends with the
\* unmigrated-syntax error whatever strict is and whatever is missing, and the
\* engine is never invoked
C3_LegacyAlwaysUnmigrated ==
    (/\ Rendering /\ rq.docxtpl /\ ObjectContext
     /\ Docx(rq.doc).zip /\ detect_angle_brackets(Docx(rq.doc)))
    => /\ eng.calls = << >>
       /\ pc = "done" => resp.kind = "unmigrated_syntax"

\* C4: petition render, no legacy token detected, strict true or omitted, a required
\* name of the scanner not among the keys of the final data map: the response is the
\* missing-variables error with exactly the missing names and all the required
\* names, and the engine is not invoked
C4_StrictMissingRejected ==
    (/\ AfterGate
     /\ ~detect_angle_brackets(Docx(rq.doc))
     /\ StrictRequested
     /\ MissingNames # << >>)
    => /\ pc = "done"
       /\ resp = Response("missing_variables", 400, MissingNames, RequiredNames, << >>, "none")
       /\ eng.calls = << >>

\* the scenario of the specification: {{ nome_completo }} and {{ cpf }}, a map
\* without cpf, strict omitted
C4_Witness ==
    /\ rq.endpoint = "petition" /\ rq.doc = "two_vars" /\ rq.strict = Absent
    /\ ObjectContext /\ "nome_completo" \in DOMAIN RawMap
    /\ resp.kind = "missing_variables"
    /\ resp.missing = <<"cpf">> /\ resp.required = <<"cpf", "nome_completo">>

\* C5: a bank field (banco, nome_banco, cnpj, endereco_banco) present with a
\* non-empty value in the raw data map has the same value in the data map from the
\* resolver on, up to the engine, whatever the lookup returns
C5_NonEmptyBankFieldKept ==
    AfterBank =>
        \A k \in BankKeys :
            (k \in DOMAIN RawMap /\ NonEmptyValue(RawMap[k]))
                => (k \in DOMAIN ctx.kv /\ ctx.kv[k] = RawMap[k])

\* the lookup found a description with another name, and the map went to the engine
C5_Witness ==
    /\ AfterBank
    /\ "nome_banco" \in DOMAIN RawMap /\ NonEmptyValue(RawMap["nome_banco"])
    /\ get_banco_descricao_ativa(rq.conta, db) # None
    /\ get_banco_descricao_ativa(rq.conta, db)[1].nome_banco # RawMap["nome_banco"].sv
    /\ "render" \in Range(eng.calls)

\* C6: a response carries document bytes only when opening, rendering and saving
\* have all completed, and then the complete document; when any of them raised the
\* response is the single error message and carries no bytes
C6_AllOrNothing ==
    Rendering =>
        /\ resp.kind # "document" => resp.body = "none"
        /\ resp.kind = "document"
              => /\ resp.body = "complete"
                 /\ eng = [calls |-> <<"open", "render", "save">>, buf |-> "complete"]

\* saving raised after part of the archive was written
C6_Witness ==
    /\ Rendering
    /\ eng.buf = "partial"
    /\ resp.kind = "render_exception"

\* C7: every failure inside a render request ends in a structured error response;
\* no exception leaves the handler
C7_NoUncaughtException ==
    Rendering => resp.kind # "uncaught"

\* C8: with a non-empty bank code on the principal account the resolved record is
\* the active row whose banco_id is that code and the name plays no part; with an
\* empty code it is the active row whose banco_nome is the account's name without
\* its trailing parenthesized number
C8_LookupOrder ==
    ResolvedFromAccount =>
        LET active == {r \in IdentifierRows : db[r].is_ativa}
        IN  /\ active = {} => "nome_banco" \notin DOMAIN ctx.kv
            /\ active # {} =>
                  \E r \in active :
                     /\ ctx.kv["nome_banco"] =
                           JStr(IF db[r].nome_banco # << >> THEN db[r].nome_banco
                                ELSE db[r].banco_nome)
                     /\ ctx.kv["cnpj"] = JStr(db[r].cnpj)
                     /\ ctx.kv["endereco_banco"] = JStr(db[r].endereco)
            /\ (rq.conta = ContaOf(<<"Banco X", " ", "(", "341", ")">>, << >>)
                /\ \E r \in DOMAIN db : db[r].is_ativa /\ db[r].banco_nome = <<"Banco X">>)
                  => "nome_banco" \in DOMAIN ctx.kv

\* code and name of the account point to different banks, both with an active
\* description: the code decided
C8_Witness ==
    /\ ResolvedFromAccount /\ pc = "done"
    /\ rq.conta = ContaOf(<<"Banco X">>, <<"104">>)
    /\ \E r \in DOMAIN db : db[r].is_ativa /\ db[r].banco_id = "341"
    /\ "nome_banco" \in DOMAIN ctx.kv /\ ctx.kv["nome_banco"] = JStr(<<"Caixa">>)

\* C9 as stated: with no active row for the account's bank identifier the resolver
\* uses the most recently updated row of that identifier whatever its flag, and the
\* raw bank name only when the identifier has no row at all
C9_FallbackMostRecentRecord ==
    (ResolvedFromAccount /\ \A r \in IdentifierRows : ~db[r].is_ativa) =>
        IF IdentifierRows = {}
        THEN ctx.kv["banco"] = JStr(rq.conta[1].banco_nome)
        ELSE /\ "nome_banco" \in DOMAIN ctx.kv
             /\ ctx.kv["nome_banco"] =
                   JStr(LET r == MostRecent(IdentifierRows, db)[1]
                        IN  IF db[r].nome_banco # << >> THEN db[r].nome_banco
                            ELSE db[r].banco_nome)

\* C9 amended: with no active row for the account's bank identifier the resolver
\* puts the raw bank name of the account into banco and fills no other bank field,
\* whether or not inactive rows exist for the identifier
C9_FallbackRawName ==
    (ResolvedFromAccount /\ \A r \in IdentifierRows : ~db[r].is_ativa) =>
        /\ ctx.kv["banco"] = JStr(rq.conta[1].banco_nome)
        /\ DOMAIN ctx.kv \cap {"nome_banco", "cnpj", "endereco_banco"} = {}

\* an inactive description of the bank exists and was not used
C9_Witness ==
    /\ ResolvedFromAccount /\ pc = "done"
    /\ IdentifierRows # {} /\ \A r \in IdentifierRows : ~db[r].is_ativa
    /\ ctx.kv["banco"] = JStr(<<"Banco X", " ", "(", "341", ")">>)

StoredRecords ==
    <<Docx(rq.doc), IF rq.endpoint = "petition" THEN rq.context ELSE JNull, db, nextId>>

BecomesInactive(r) == r \in DOMAIN db /\ db[r].is_ativa /\ ~db'[r].is_ativa

\* in this step request p leaves its transaction with the given outcome
Ends(p, st) == tx[p].st = "open" /\ tx'[p].st = st

\* C12: an activation is one atomic transaction. The committed table changes only
\* when a transaction commits, and then by all of its writes at once; a row that
\* readers saw active becomes inactive for them only in the very step in which the
\* transaction's target is committed (active in the same bank, unless the row is
\* the target itself); and a transaction that ends in an error leaves the
\* committed table as it was, sibling deactivations included.
C12_ActivationAtomic ==
    [][ /\ db' # db =>
              \E p \in Procs : Ends(p, "committed") /\ db' = Merge(tx[p].writes, db)
        /\ \A r \in RowIds :
              BecomesInactive(r) =>
                  \E p \in Procs :
                      /\ Ends(p, "committed")
                      /\ \/ tx[p].target = r
                         \/ /\ tx[p].target \in DOMAIN db'
                            /\ db'[tx[p].target].is_ativa
                            /\ db'[tx[p].target].banco_id = db[r].banco_id
        /\ \A p \in Procs :
              (Ends(p, "integrity_error") \/ Ends(p, "deadlock")) => db' = db
      ]_vars

\* one activation has committed: its bank has an active row written during the run
\* and the description that was active before is inactive; another activation of
\* the same bank has failed on the constraint after deactivating nothing visible
C12_Witness ==
    /\ \E p, q \in Procs : tx[p].st = "committed" /\ tx[q].st = "integrity_error"
    /\ \E r, o \in DOMAIN db :
          /\ o <= InitRows /\ r # o
          /\ db[r].banco_id = db[o].banco_id
          /\ db[r].is_ativa /\ db[r].atualizado_em > MaxRows
          /\ ~db[o].is_ativa
          /\ \A x \in DOMAIN db : (x <= InitRows /\ db[x].banco_id = db[o].banco_id) => ~db[x].is_ativa

\* ---- C13
\* the petition handler has run its checks on a readable document without a
\* detected legacy token
GatePassedOrRejected ==
    /\ pc = "done" /\ rq.endpoint = "petition"
    /\ chk # EmptyFn /\ ~chk.has_angle

\* the names of the document's plain {{ name }} tokens, as the scanner reads them
PlainVariables ==
    {f.raw : f \in {x \in Range(extract_jinja_fields(Docx(rq.doc)).fields) : x.raw \in Names}}

\* names bound by a {% for name in ... %} tag of the document
LoopVariables ==
    LET txt == read_xml_from_docx(Docx(rq.doc))
    IN  {txt[SkipWs(txt, SkipWs(txt, i + 1) + 1)] :
            i \in {x \in 1..Len(txt) : BlockMatchAt(txt, x) /\ txt[SkipWs(txt, x + 1)] = "for"}}

\* the request ended in the except branch after the engine was called, without bytes
EngineRaised ==
    /\ resp.kind = "render_exception" /\ resp.status = 400 /\ resp.body = "none"
    /\ eng.calls # << >> /\ eng.calls[1] = "open"

Unescape(xml) ==
    [i \in 1..Len(xml) |-> IF xml[i] = "&lt;" THEN "<" ELSE IF xml[i] = "&gt;" THEN ">" ELSE xml[i]]

\* the legacy tokens a reader of the document sees in a part's text
RECURSIVE TokensFrom(_, _)
TokensFrom(xml, i) ==
    IF i > Len(xml) THEN {}
    ELSE IF AngleTokenAt(xml, i)
         THEN {RawOfToken(xml, i)} \cup TokensFrom(xml, AngleClose(xml, i + 3) + 2)
         ELSE TokensFrom(xml, i + 1)

\* the slugified names of the legacy tokens of the original document
SlugsOfLegacyTokens ==
    LET docx == Docx(rq.doc)
    IN  {Concat(slugify_placeholder(raw)) :
            raw \in UNION {TokensFrom(Unescape(docx.parts[i].xml), 1) :
                             i \in {x \in 1..Len(docx.parts) : docx.parts[x].path \in WordXmlParts}}}

\* C14: for every document written in the legacy syntax only, the migrator run
\* with an empty mapping followed by the scanner yields the expression syntax
\* ("jinja") and a required-name list whose names are exactly the slugified names
\* of the document's legacy tokens.
C14_MigrateThenScan ==
    (pc = "scanned" /\ rq.doc \in LegacyOnlyDocNames /\ rq.mapping = EmptyFn)
    => /\ chk.syntax = "jinja"
       /\ {f.name : f \in Range(chk.fields)} = SlugsOfLegacyTokens

\* C15: the migrator is idempotent: for any document and any mapping, the migrator
\* applied to its own output writes an archive whose parts are identical to that
\* output.
C15_MigratorIdempotent ==
    pc = "remigrated" => arq["tmp2"].parts = arq["tmp1"].parts

\* the output archive has the input's parts in the input's order, and every part
\* that is not a word/*.xml part is the input's part
SameButWordXml(in, out) ==
    /\ out.zip /\ Len(out.parts) = Len(in.parts)
    /\ \A i \in 1..Len(in.parts) :
          /\ out.parts[i].path = in.parts[i].path
          /\ in.parts[i].path \notin WordXmlParts => out.parts[i] = in.parts[i]

Classification(docx) ==
    LET expression == extract_jinja_fields(docx).syntax = "jinja"
        legacy == detect_angle_brackets(docx)
    IN  IF expression /\ ~legacy THEN "expression"
        ELSE IF expression /\ legacy THEN "mixed"
        ELSE IF legacy THEN "legacy"
        ELSE "unknown"

\* the outcome a reported syntax string stands for
OutcomeOf(syntax) ==
    CASE syntax = "jinja" -> "expression"
      [] syntax = "jinja (mixed: angle present)" -> "mixed"
      [] syntax \in {"legacy", "angle"} -> "legacy"
      [] OTHER -> syntax

\* C17: the syntax reported by the fields endpoint is the four-outcome
\* classification of the document: expression when expression tokens and no legacy
\* token are found, mixed when both are found, legacy when only legacy tokens are
\* found, unknown when neither is found.
C17_FieldsReportsClassification ==
    (rq.endpoint = "fields" /\ pc = "done" /\ resp.status = 200)
    => OutcomeOf(chk.syntax) = Classification(arq["template"])

\* the leading identifier paths of the document's expression tokens: of every
\* {{ name }}, {{ name | filter(args) }} and {{ a.b }}, and of every {% if name %}
\* and {% for name %}
LeadingIdentifiers(docx) ==
    LET txt == read_xml_from_docx(docx)
        prints == PrintsFrom(txt, 1)
        ofPrints == {SubSeq(prints[i], 1, PathEnd(prints[i], 1) - 1) :
                        i \in {x \in 1..Len(prints) : AllowedExpr(prints[x])}}
        named == {i \in 1..Len(txt) :
                     /\ txt[i] = "{%"
                     /\ LET k == SkipWs(txt, i + 1)
                            n == SkipWs(txt, k + 1)
                        IN  /\ k <= Len(txt) /\ txt[k] \in {"if", "for"}
                            /\ n > k + 1 /\ n <= Len(txt) /\ txt[n] \in Names
                            /\ BlockMatchAt(txt, i)}
        ofControls == {LET n == SkipWs(txt, SkipWs(txt, i + 1) + 1)
                       IN  SubSeq(txt, n, PathEnd(txt, n) - 1) : i \in named}
    IN  {Concat(path) : path \in ofPrints \cup ofControls}

\* C18: the scanner's required-variable list contains the leading identifier of
\* every expression token of the document: plain tokens, tokens with filters,
\* dotted paths, and the control tokens {% if name %} and {% for name %}.
C18_ScannerListsEveryToken ==
    (rq.endpoint = "fields" /\ pc = "done" /\ resp.status = 200)
    => LeadingIdentifiers(arq["template"])
          \subseteq {f.raw : f \in Range(chk.fields)}

\* ---- C19
\* C19: a ContaBancaria create or update that would give a client a second
\* principal account is rejected by validation before any write: no client has two
\* principal accounts, and no such request gets as far as the write, where only
\* the index unique_principal_per_cliente stops it; full and partial updates and
\* concurrent requests included.
C19_SecondPrincipalRejectedByValidation ==
    /\ \A i, j \in DOMAIN contas :
          (contas[i].is_principal /\ contas[j].is_principal
           /\ contas[i].cliente = contas[j].cliente) => i = j
    /\ \A p \in Procs : call[p].status # "500 IntegrityError principal"

\* ---- C20
\* C20: creating a Cliente with the CPF of an existing active Cliente, or updating
\* a Cliente's CPF to the CPF of another Cliente, is rejected with a validation
\* error before anything is persisted: no two clients share a CPF, and no such
\* request gets as far as the write, where only the unique index on cpf stops it.
C20_DuplicateCpfRejectedByValidation ==
    /\ \A i, j \in DOMAIN clientes : clientes[i].cpf = clientes[j].cpf => i = j
    /\ \A p \in Procs : call[p].status # "500 IntegrityError cpf"

\* ---- C21
\* the statement writes a row with is_ativa = true
Activates(s) == s.k \in {"save", "insert"} /\ (s.fields = "ativa" \/ s.row.is_ativa)

\* the statement deactivates rows of bank b
Deactivates(s, b) == s.k \in {"update_where", "update_apply"} /\ s.bank = b

\* C21: on every code path that makes a DescricaoBanco active, the write that
\* deactivates the other active rows of the banco_id comes before the write that
\* sets the target active (no deactivation of the bank is still to come when the
\* activation is written), so that the activation write of a request running
\* alone never meets an already active sibling.
C21_DeactivateBeforeActivate ==
    \A p \in Procs :
        tx[p].st = "open" =>
            /\ \A i, j \in 1..Len(tx[p].prog) :
                  (i < j /\ Activates(tx[p].prog[i]))
                      => ~Deactivates(tx[p].prog[j], tx[p].prog[i].bank)
            /\ (tx[p].prog # << >> /\ Activates(CurStmt(p))
                 /\ \A q \in Procs \ {p} : tx[q].st = "idle"
                 /\ (CurStmt(p).k = "insert" \/ CurStmt(p).id \in DOMAIN View(p)))
                    => ~UniqueViolation(View(p), SaveId(p, CurStmt(p)), SavedRow(p, CurStmt(p)))

\* ---- C22
\* the two raced activations have both committed
BothCommitted == tx[1].st = "committed" /\ tx[2].st = "committed"

\* the rows the two requests were sent for (kept by a request until it ends)
ActiveOfBank(b) == {r \in DOMAIN db : db[r].banco_id = b /\ db[r].is_ativa}

RECURSIVE TopLevelFrom(_, _, _)
TopLevelFrom(txt, i, bound) ==
    IF i > Len(txt) THEN {}
    ELSE IF txt[i] = "{{"
    THEN LET j == NextAtom(txt, i + 1, "}}")
             inner == Strip(SubSeq(txt, i + 1, j - 1))
         IN  IF j = 0 THEN {}
             ELSE (IF AllowedExpr(inner) THEN {inner[1]} \ bound ELSE {})
                  \cup TopLevelFrom(txt, j + 1, bound)
    ELSE IF txt[i] = "{%" /\ BlockMatchAt(txt, i)
    THEN LET w == SkipWs(txt, i + 1)
             n == SkipWs(txt, w + 1)
             close == NextAtom(txt, i + 1, "%}")
         IN  IF txt[w] = "for"
             THEN ({txt[SkipWs(txt, SkipWs(txt, n + 1) + 1)]} \ bound)
                  \cup TopLevelFrom(txt, close + 1, bound \cup {txt[n]})
             ELSE IF txt[w] \in {"if", "elif"}
             THEN ((IF txt[n] \in Names THEN {txt[n]} ELSE {}) \ bound)
                  \cup TopLevelFrom(txt, close + 1, bound)
             ELSE IF txt[w] = "endfor"
             THEN TopLevelFrom(txt, close + 1, {})
             ELSE TopLevelFrom(txt, close + 1, bound)
    ELSE TopLevelFrom(txt, i + 1, bound)

\* the top-level variables of a document: those of every part the engine renders
EngineVariables(docx) ==
    UNION {TopLevelFrom(xml_to_plain(docx.parts[i].xml), 1, {}) :
              i \in {x \in 1..Len(docx.parts) : docx.parts[x].path \in EngineParts}}

\* the petition handler's checks let the request through to the engine
GatePassed ==
    /\ rq.endpoint = "petition"
    /\ \/ pc \in {"open", "render", "save"}
       \/ pc = "done" /\ eng.calls # << >>

\* C23: when the Gate lets a petition render pass in strict mode, every top-level
\* variable the engine must resolve (tokens with filters, the root of a dotted
\* path, control tokens included) is a key of the data map handed to the engine.
C23_StrictPassResolvesEveryVariable ==
    (GatePassed /\ strict_flag(rq.strict))
        => EngineVariables(Docx(rq.doc)) \subseteq DOMAIN ctx.kv

\* the engine raised on a request the strict Gate let through, on a document the
\* engine can compile: a print or a block reached an undefined name
C23_StrictPassThenUndefined ==
    /\ GatePassed /\ strict_flag(rq.strict) /\ chk.missing = << >>
    /\ resp.kind = "render_exception" /\ eng.calls = <<"open", "render">>
    /\ EngineVariables(Docx(rq.doc)) \ DOMAIN ctx.kv # {}


\* ---- C24
\* the migrator has written its output for the request's document
Migrated ==
    /\ rq.endpoint = "migrate" /\ pc \in {"migrated", "scanned", "remigrated"}
    /\ arq["tmp1"].zip

\* C24: after the migrator has run on any document, detect_angle_brackets finds no
\* legacy token in the output, tokens split over adjacent text fragments and
\* tokens in any part the detector reads included.
C24_NoLegacyAfterMigration ==
    Migrated => ~detect_angle_brackets(arq["tmp1"])

\* the detector finds a legacy token in the document and still finds it in the
\* migrator's output
C24_StillDetected ==
    /\ Migrated
    /\ detect_angle_brackets(Docx(rq.doc))
    /\ detect_angle_brackets(arq["tmp1"])


\* ---- C25
\* the text a reader of the document sees in the parts the detector reads: the
\* character data of each part, with the entities Word writes for the angle
\* brackets turned back into the characters
VisibleText(docx) ==
    LET sel == SelectSeq(docx.parts, LAMBDA part : part.path \in ScannedParts)
    IN  [i \in 1..Len(sel) |-> Unescape(xml_to_plain(sel[i].xml))]

\* the visible text of some part contains a legacy token << text >>
VisibleLegacyToken(docx) ==
    \E k \in 1..Len(VisibleText(docx)) :
        \E i \in 1..Len(VisibleText(docx)[k]) : AngleMatchAt(VisibleText(docx)[k], i)

\* C25: detect_angle_brackets returns true for every document whose visible text
\* contains a legacy token << text >>, the angle brackets being stored escaped in
\* the XML; such a document never passes the render gate of either endpoint.
C25_VisibleLegacyDetected ==
    (Rendering /\ Docx(rq.doc).zip /\ VisibleLegacyToken(Docx(rq.doc)))
    => /\ detect_angle_brackets(Docx(rq.doc))
       /\ eng.calls = << >>
       /\ pc \notin {"prefill", "open", "render", "save"}

\* a document whose visible text holds a legacy token has been rendered and sent
C25_LegacyRendered ==
    /\ Rendering /\ VisibleLegacyToken(Docx(rq.doc))
    /\ ~detect_angle_brackets(Docx(rq.doc))
    /\ resp.kind = "document"


\* ---- C26
\* the handler has just merged the stored context and the overrides
Merged == rq.endpoint = "petition" /\ pc = "bank"

\* an override value that is the empty string or null
EmptyOverride(v) == v = JNull \/ v = JStr(<< >>)

\* C26: in the merge of the petition's stored context and context_override, an
\* override value replaces the base value of the same key only when it is
\* non-empty; an empty override (empty string or null) leaves the base value in
\* place.
C26_EmptyOverrideKeepsBase ==
    Merged =>
        \A k \in DOMAIN OrEmptyDict(rq.context).kv \cap DOMAIN OrEmptyDict(rq.context_override).kv :
            ctx.kv[k] = IF EmptyOverride(rq.context_override.kv[k])
                        THEN rq.context.kv[k]
                        ELSE rq.context_override.kv[k]

\* an empty override has replaced a non-empty base value
C26_EmptyOverrideWon ==
    /\ Merged
    /\ "cpf" \in DOMAIN OrEmptyDict(rq.context).kv
    /\ rq.context_override = Ctx1("cpf", JStr(<< >>))
    /\ ctx.kv["cpf"] = JStr(<< >>)
    /\ rq.context.kv["cpf"] # JStr(<< >>)


\* ---- C27
\* the resolver took the caller's value of field k for empty: it is absent from the
\* raw map, or the resolved map holds another value
TreatedAsEmpty(k) == k \notin DOMAIN RawMap \/ ctx.kv[k] # RawMap[k]

\* the resolver has run with a description found, so that every bank field is
\* looked at
Resolved ==
    /\ AfterBank /\ ObjectContext
    /\ get_banco_descricao_ativa(rq.conta, db) # None

\* C27: the resolver decides whether a caller-supplied value is empty with one
\* predicate applied identically to banco, nome_banco, cnpj and endereco_banco:
\* the same value (null, "", a whitespace-only string, 0, false) supplied for two
\* of the fields is either kept in both or replaced in both.
C27_OneEmptinessPredicate ==
    Resolved =>
        \A k1, k2 \in BankKeys \cap DOMAIN RawMap :
            RawMap[k1] = RawMap[k2] => (TreatedAsEmpty(k1) <=> TreatedAsEmpty(k2))

\* 0 supplied for every bank field: banco is replaced, the other three keep 0
C27_ZeroSplitsTheFields ==
    /\ Resolved
    /\ \A k \in BankKeys : k \in DOMAIN RawMap /\ RawMap[k] = JNum(0)
    /\ ctx.kv["banco"] # JNum(0)
    /\ \A k \in BankKeys \ {"banco"} : ctx.kv[k] = JNum(0)


\* ---- C28
\* the template render has prefilled the context from the client of cliente_id,
\* who has a principal account
Prefilled ==
    /\ rq.endpoint = "template" /\ pc \in {"open", "render", "save", "done"}
    /\ ctx.jt = "obj" /\ OrEmptyDict(rq.context).jt = "obj"
    /\ Truthy(rq.cliente_id) /\ ValidPk(rq.cliente_id) /\ rq.cliente_id.nv \in ClienteIds
    /\ rq.conta # None

\* C28: for the same client, principal account and DescricaoBanco store, and a
\* context without the key banco, the template render (called with cliente_id)
\* puts into banco the value the petition render puts there.
C28_SameBancoInBothEndpoints ==
    (Prefilled /\ "banco" \notin DOMAIN OrEmptyDict(rq.context).kv)
        => ctx.kv["banco"] = ResolveBank(OrEmptyDict(rq.context).kv, rq.conta, db)["banco"]

\* the two endpoints differ: the petition's value is the formatted description of
\* the bank found by its code, the template's is the account's bank name
C28_BancoDiffers ==
    /\ Prefilled /\ "banco" \notin DOMAIN OrEmptyDict(rq.context).kv
    /\ get_banco_descricao_ativa(rq.conta, db) # None
    /\ ctx.kv["banco"] = JStr(rq.conta[1].banco_nome)
    /\ ResolveBank(OrEmptyDict(rq.context).kv, rq.conta, db)["banco"]
          = JStr(format_banco_string(get_banco_descricao_ativa(rq.conta, db), rq.conta[1].banco_nome))
    /\ ctx.kv["banco"] # ResolveBank(OrEmptyDict(rq.context).kv, rq.conta, db)["banco"]


\* ---- C30
\* worker p has just answered a request of the given kind on client id
Answered(p, op, id) ==
    /\ call'[p] # call[p]
    /\ call'[p].op = op /\ call'[p].id = id /\ call'[p].pc = "done"

\* C30: destroy leaves the record in the table with is_active = false; a restore
\* request (sent with no query parameter) on a client that is inactive sets
\* is_active to true and answers 200 with the client; on a client that is already
\* active it answers with an error and leaves the record unchanged.
C30_DestroyThenRestore ==
    [][\A p \in Procs : \A id \in DOMAIN clientes :
          /\ Answered(p, "cliente_destroy", id)
                => /\ Len(clientes') = Len(clientes)
                   /\ clientes'[id] = [clientes[id] EXCEPT !.is_active = FALSE]
          /\ Answered(p, "cliente_restore", id)
                => IF clientes[id].is_active
                   THEN call'[p].status = "400 already active" /\ clientes' = clientes
                   ELSE call'[p].status = "200" /\ clientes'[id].is_active
      ]_vars

\* a client was destroyed, and the restore request sent for it without a query
\* parameter was answered 404: the client is still inactive
C30_RestoreNotFound ==
    \E p \in Procs : \E id \in DOMAIN clientes :
        /\ call[p].op = "cliente_restore" /\ call[p].id = id /\ call[p].status = "404"
        /\ ~clientes[id].is_active
        /\ \E q \in Procs : call[q].op = "cliente_destroy" /\ call[q].id = id


\* ---- C29
\* client i is inactive and holds the given CPF
InactiveHolder(i, cpf) == clientes[i].cpf = cpf /\ ~clientes[i].is_active

NoSharedCpf(t) == \A i, j \in DOMAIN t : t[i].cpf = t[j].cpf => i = j

\* worker p's create request takes the step that leads from one position of the
\* handler to the next
CreateStep(p, from, to) ==
    /\ call[p].pc \in from /\ call'[p] # call[p]
    /\ call'[p].op = "cliente_create" /\ call'[p].pc \in to

\* C29: a create request whose CPF is that of an existing inactive Cliente creates
\* no new record: validation lets it pass, create() finds the record, and the save
\* leaves the record under its id with the submitted values and is_active = true,
\* the number of records unchanged; and no two records share a CPF after any
\* sequence of create, destroy and restore.
C29_CreateRestoresInactive ==
    [][/\ NoSharedCpf(clientes')
       /\ \A p \in Procs : \A i \in DOMAIN clientes :
             /\ (CreateStep(p, {"idle", "done"}, {"validated", "done"})
                    /\ InactiveHolder(i, call'[p].cpf))
                   => call'[p].pc = "validated" /\ clientes' = clientes
             /\ (CreateStep(p, {"validated"}, {"restore", "insert", "done"})
                    /\ InactiveHolder(i, call[p].cpf))
                   => call'[p].pc = "restore" /\ call'[p].id = i /\ clientes' = clientes
             /\ (CreateStep(p, {"restore"}, {"done"}) /\ call[p].id = i
                    /\ InactiveHolder(i, call[p].cpf))
                   => /\ call'[p].status = "201" /\ call'[p].id = i
                      /\ Len(clientes') = Len(clientes)
                      /\ clientes' = [clientes EXCEPT ![i] = ClienteRow(call[p].cpf, TRUE)]
      ]_vars

\* a client was destroyed and a later create request with its CPF was answered 201
\* with that client, active again under its id
C29_Witness ==
    \E p, q \in Procs : \E i \in DOMAIN clientes :
        /\ call[q].op = "cliente_destroy" /\ call[q].id = i /\ call[q].status = "204"
        /\ call[p].op = "cliente_create" /\ call[p].id = i /\ call[p].status = "201"
        /\ clientes[i] = ClienteRow(call[p].cpf, TRUE)

====
